---------------------------- MODULE Spec2Model ----------------------------
(***************************************************************************)
(* The persistence subsystem of the task manager                           *)
(* (src/task_manager/src/storage.cpp, include/task.h, src/utils.cpp) and   *)
(* the program that calls it (main.cpp, commands.cpp).                     *)
(*                                                                         *)
(* Text is a sequence of characters; a character is a one-character        *)
(* string ("a", "{", "\n"), and the characters TLA+ has no escape for are  *)
(* the atoms BS (backspace) and VT (vertical tab).  Positions in a text    *)
(* are 0-based as in the C++ code: At(s, i) is s[i] of the code.           *)
(*                                                                         *)
(* A time_t is [days, secs]: whole days since the Unix epoch and the       *)
(* second of that day (0..86399), days * 86400 + secs being the value of   *)
(* the 64-bit integer.  A time_point is [days, secs, sub]: the same with   *)
(* the nanosecond of that second (0..999999999), the count of nanoseconds  *)
(* since the epoch being a 64-bit integer.  The local time zone is UTC     *)
(* without daylight saving.                                                *)
(***************************************************************************)
EXTENDS Integers, Sequences, FiniteSets, TLC

-----------------------------------------------------------------------------
(* Characters *)

QUOTE == "\""
BSL == "\\"
NL == "\n"
TAB == "\t"
CR == "\r"
FF == "\f"
BS == "<BS>"
VT == "<VT>"
EOF == "<EOF>"
BYTE_FF == "<0xFF>"

Digits == <<"0", "1", "2", "3", "4", "5", "6", "7", "8", "9">>

IsDigit(c) == \E i \in 1..10 : Digits[i] = c

DigitVal(c) == (CHOOSE i \in 1..10 : Digits[i] = c) - 1

\* ::isspace in the "C" locale: what std::ws and the skipws flag skip.
IsSpace(c) == c \in {" ", TAB, NL, VT, FF, CR}

\* The set loadTasks trims: " \t\n\r".
IsTrimChar(c) == c \in {" ", TAB, NL, CR}

At(s, i) == s[i + 1]

\* std::string::substr(pos, n)
Substr(s, pos, n) == SubSeq(s, pos + 1, pos + n)

\* The text of a TLA+ tuple of characters, from position p on.
From(s, p) == SubSeq(s, p + 1, Len(s))

\* numeric_limits<int>: the width of `int numeric_id_value` and Task::id.
INT_MAX == 2147483647

-----------------------------------------------------------------------------
(* StringEscaper: escapeJsonString *)

EscapeChar(c) ==
  CASE c = QUOTE -> <<BSL, QUOTE>>
    [] c = BSL   -> <<BSL, BSL>>
    [] c = BS    -> <<BSL, "b">>
    [] c = FF    -> <<BSL, "f">>
    [] c = NL    -> <<BSL, "n">>
    [] c = CR    -> <<BSL, "r">>
    [] c = TAB   -> <<BSL, "t">>
    [] OTHER     -> <<c>>

RECURSIVE EscapeFrom(_, _)
EscapeFrom(input, i) ==
  IF i > Len(input) THEN <<>>
  ELSE EscapeChar(input[i]) \o EscapeFrom(input, i + 1)

escapeJsonString(input) == EscapeFrom(input, 1)

-----------------------------------------------------------------------------
(* The input stream of parseTaskObject: the text s and the read position p *)

Peek(s, p) == IF p < Len(s) THEN At(s, p) ELSE EOF

\* std::ws, and the whitespace a formatted extraction skips first.
RECURSIVE SkipWs(_, _)
SkipWs(s, p) ==
  IF p < Len(s) /\ IsSpace(At(s, p)) THEN SkipWs(s, p + 1) ELSE p

\* operator>>(istream&, string&) once a non-space character is next: the
\* characters up to the next whitespace or the end of the stream.
RECURSIVE ReadWord(_, _, _)
ReadWord(s, p, acc) ==
  IF p < Len(s) /\ ~IsSpace(At(s, p))
  THEN ReadWord(s, p + 1, Append(acc, At(s, p)))
  ELSE [ok |-> TRUE, str |-> acc, pos |-> p]

\* The delimited branch of std::quoted's extractor, after the opening quote:
\* a backslash makes the next character literal (whatever it is), the next
\* unescaped quote ends the value, the end of the stream fails.
RECURSIVE ReadDelimited(_, _, _)
ReadDelimited(s, p, acc) ==
  IF p >= Len(s) THEN [ok |-> FALSE, str |-> acc, pos |-> p]
  ELSE IF At(s, p) = BSL
       THEN IF p + 1 >= Len(s)
            THEN [ok |-> FALSE, str |-> acc, pos |-> p + 1]
            ELSE ReadDelimited(s, p + 2, Append(acc, At(s, p + 1)))
  ELSE IF At(s, p) = QUOTE THEN [ok |-> TRUE, str |-> acc, pos |-> p + 1]
  ELSE ReadDelimited(s, p + 1, Append(acc, At(s, p)))

\* ss >> std::quoted(str): skip whitespace; a first character that is not the
\* quote is put back and a whitespace-delimited word is read instead.
ReadQuotedAt(s, q, old) ==
  IF q >= Len(s) THEN [ok |-> FALSE, str |-> old, pos |-> q]
  ELSE IF At(s, q) = QUOTE THEN ReadDelimited(s, q + 1, <<>>)
  ELSE ReadWord(s, q, <<>>)

ReadQuoted(s, p, old) == ReadQuotedAt(s, SkipWs(s, p), old)

\* The digits of ss >> int from position p.  range is "int" while the value
\* read so far fits a non-negative int (then val is that value), "min" when it
\* is exactly INT_MAX + 1 (the magnitude of the least int), "over" beyond.
RECURSIVE ReadDigits(_, _, _, _, _)
ReadDigits(s, p, acc, n, range) ==
  IF p < Len(s) /\ IsDigit(At(s, p))
  THEN LET d == DigitVal(At(s, p)) IN
         IF range = "int" /\ acc <= (INT_MAX - d) \div 10
         THEN ReadDigits(s, p + 1, acc * 10 + d, n + 1, "int")
         ELSE IF range = "int" /\ acc = INT_MAX \div 10 /\ d = (INT_MAX % 10) + 1
         THEN ReadDigits(s, p + 1, acc, n + 1, "min")
         ELSE ReadDigits(s, p + 1, acc, n + 1, "over")
  ELSE [val |-> acc, pos |-> p, count |-> n, range |-> range]

\* ss >> numeric_id_value: optional sign, decimal digits up to the first
\* non-digit; no digit, or a value outside int, sets failbit.  On failure
\* the int holds 0 when no digit was found and the nearest end of the range
\* of int when the value is outside it.
IntOf(neg, d) ==
  IF d.count = 0 THEN [ok |-> FALSE, val |-> 0, pos |-> d.pos]
  ELSE IF d.range = "over" \/ (d.range = "min" /\ ~neg)
  THEN [ok |-> FALSE, val |-> IF neg THEN (0 - INT_MAX) - 1 ELSE INT_MAX, pos |-> d.pos]
  ELSE [ok |-> TRUE, pos |-> d.pos,
        val |-> IF d.range = "min" THEN (0 - INT_MAX) - 1
                ELSE IF neg THEN 0 - d.val ELSE d.val]

\* At the end of the text the sentry fails and the int keeps its value old.
ReadSigned(s, q, old) ==
  IF q >= Len(s) THEN [ok |-> FALSE, val |-> old, pos |-> q]
  ELSE IntOf(Peek(s, q) = "-",
             ReadDigits(s, IF Peek(s, q) \in {"-", "+"} THEN q + 1 ELSE q, 0, 0, "int"))

ReadInt(s, p, old) == ReadSigned(s, SkipWs(s, p), old)

-----------------------------------------------------------------------------
(* Task and TaskStatus (include/task.h) *)

statusToString(status) ==
  CASE status = "TODO"        -> <<"t", "o", "d", "o">>
    [] status = "IN_PROGRESS" -> <<"i", "n", "-", "p", "r", "o", "g", "r", "e", "s", "s">>
    [] status = "DONE"        -> <<"d", "o", "n", "e">>
    [] OTHER                  -> <<"u", "n", "k", "n", "o", "w", "n">>

\* A variant of stringToStatus that takes an unrecognized string as done.
stringToStatusDone(statusStr) ==
  IF statusStr = statusToString("IN_PROGRESS") THEN "IN_PROGRESS"
  ELSE IF statusStr = statusToString("TODO") THEN "TODO"
  ELSE "DONE"

stringToStatus(statusStr) ==
  IF statusStr = statusToString("IN_PROGRESS") THEN "IN_PROGRESS"
  ELSE IF statusStr = statusToString("DONE") THEN "DONE"
  ELSE "TODO"

\* (std::time_t) n for an int n of seconds.
time_t(n) == [days |-> n \div 86400, secs |-> n % 86400]

\* The time point of day d, second s of it and nanosecond n of it, s and n
\* of either sign and beyond a day and a second.
TimePoint(d, s, n) ==
  [days |-> d + ((s + (n \div 1000000000)) \div 86400),
   secs |-> (s + (n \div 1000000000)) % 86400,
   sub  |-> n % 1000000000]

\* a is an earlier time point than b.
Before(a, b) ==
  \/ a.days < b.days
  \/ a.days = b.days /\ a.secs < b.secs
  \/ a.days = b.days /\ a.secs = b.secs /\ a.sub < b.sub

\* The least and the greatest count of nanoseconds of a 64-bit integer,
\* -2^63 and 2^63 - 1, as time points.
MinPoint == [days |-> -106752, secs |-> 763, sub |-> 145224192]

MaxPoint == [days |-> 106751, secs |-> 85636, sub |-> 854775807]

\* The count of nanoseconds taken modulo 2^64 into the range of the 64-bit
\* integer; 2^64 ns are 213503 days, 84873 s and 709551616 ns.
RECURSIVE Wrap64(_)
Wrap64(tp) ==
  IF Before(MaxPoint, tp)
  THEN Wrap64(TimePoint(tp.days - 213503, tp.secs - 84873, tp.sub - 709551616))
  ELSE IF Before(tp, MinPoint)
  THEN Wrap64(TimePoint(tp.days + 213503, tp.secs + 84873, tp.sub + 709551616))
  ELSE tp

\* The multiplication of from_time_t, seconds * 10^9 in a 64-bit integer,
\* overflows for t: undefined behaviour.
Overflows(t) ==
  \/ Before(MaxPoint, TimePoint(t.days, t.secs, 0))
  \/ Before(TimePoint(t.days, t.secs, 0), MinPoint)

\* std::chrono::system_clock::from_time_t: the product that overflows is
\* the wrapped one in a build that does not trap; Overflows tells the
\* callers that a build that traps signed overflow is killed in this call.
from_time_t(t) == Wrap64(TimePoint(t.days, t.secs, 0))

\* std::chrono::system_clock::to_time_t: the nanoseconds divided by 10^9,
\* rounded towards zero.
to_time_t(tp) ==
  IF tp.days < 0 /\ tp.sub > 0
  THEN [days |-> tp.days + ((tp.secs + 1) \div 86400), secs |-> (tp.secs + 1) % 86400]
  ELSE [days |-> tp.days, secs |-> tp.secs]

\* A variant of DefaultTask whose id marks a task that was never filled.
UnsetTask ==
  [id |-> -1, description |-> <<>>, status |-> "TODO",
   createdAt |-> from_time_t(time_t(0)), updatedAt |-> from_time_t(time_t(0))]

\* Task(): id 0, empty description, TODO, both time points value-initialised.
DefaultTask ==
  [id |-> 0, description |-> <<>>, status |-> "TODO",
   createdAt |-> from_time_t(time_t(0)), updatedAt |-> from_time_t(time_t(0))]

-----------------------------------------------------------------------------
(* TimestampCodec: the calendar (std::mktime and std::localtime in UTC) *)

IsLeap(y) == (y % 4 = 0 /\ y % 100 # 0) \/ y % 400 = 0

LeapsBefore(y) == ((y - 1) \div 4) - ((y - 1) \div 100) + ((y - 1) \div 400)

\* Days from 1970-01-01 to the first of January of year y.
DaysBeforeYear(y) == 365 * (y - 1970) + LeapsBefore(y) - LeapsBefore(1970)

DaysInMonth(y, m) ==
  IF m = 2 THEN (IF IsLeap(y) THEN 29 ELSE 28)
  ELSE IF m \in {4, 6, 9, 11} THEN 30 ELSE 31

\* Days from the first of January of y to the first of month m (1..12).
RECURSIVE DaysBeforeMonth(_, _)
DaysBeforeMonth(y, m) ==
  IF m <= 1 THEN 0 ELSE DaysBeforeMonth(y, m - 1) + DaysInMonth(y, m - 1)

\* std::mktime on the fields get_time filled (tm_year + 1900, tm_mon + 1,
\* tm_mday, ...): out-of-range days and seconds carry over.
mktime(tm) ==
  [days |-> DaysBeforeYear(tm.year) + DaysBeforeMonth(tm.year, tm.mon) + (tm.mday - 1)
              + ((tm.hour * 3600 + tm.min * 60 + tm.sec) \div 86400),
   secs |-> (tm.hour * 3600 + tm.min * 60 + tm.sec) % 86400]

RECURSIVE YearOfDay(_, _)
YearOfDay(days, y) ==
  IF days < DaysBeforeYear(y) THEN YearOfDay(days, y - 1)
  ELSE IF days >= DaysBeforeYear(y + 1) THEN YearOfDay(days, y + 1)
  ELSE y

RECURSIVE MonthOfDay(_, _, _)
MonthOfDay(y, yday, m) ==
  IF yday >= DaysBeforeMonth(y, m + 1) THEN MonthOfDay(y, yday, m + 1) ELSE m

\* std::localtime
\* The calendar fields of second rem of day yday (from 0) of year y, which
\* lies in month m.
TmOf(y, yday, m, rem) ==
  [year |-> y, mon |-> m, mday |-> yday - DaysBeforeMonth(y, m) + 1,
   hour |-> rem \div 3600, min |-> (rem % 3600) \div 60, sec |-> rem % 60]

TmInYear(y, yday, rem) == TmOf(y, yday, MonthOfDay(y, yday, 1), rem)

TmOnDay(days, y, rem) == TmInYear(y, days - DaysBeforeYear(y), rem)

\* std::localtime
localtime(t) ==
  TmOnDay(t.days, YearOfDay(t.days, 1970 + (t.days \div 365)), t.secs)

\* A non-negative number in decimal, left-padded with zeros to width w.
RECURSIVE Decimal(_)
Decimal(n) ==
  IF n < 10 THEN <<Digits[n + 1]>>
  ELSE Append(Decimal(n \div 10), Digits[(n % 10) + 1])

RECURSIVE Pad(_, _)
Pad(s, w) == IF Len(s) >= w THEN s ELSE Pad(<<"0">> \o s, w)

\* operator<<(ostream&, int)
IntToText(n) ==
  IF n = (0 - 2147483647) - 1
  THEN <<"-">> \o Decimal(214748364) \o <<"8">>
  ELSE IF n < 0 THEN <<"-">> \o Decimal(0 - n) ELSE Decimal(n)

\* formatTimestamp: put_time(&local_tm, "%Y-%m-%d %H:%M:%S")
put_time(tm) ==
  Decimal(tm.year) \o <<"-">> \o Pad(Decimal(tm.mon), 2) \o <<"-">>
    \o Pad(Decimal(tm.mday), 2) \o <<" ">> \o Pad(Decimal(tm.hour), 2)
    \o <<":">> \o Pad(Decimal(tm.min), 2) \o <<":">> \o Pad(Decimal(tm.sec), 2)

formatTimestamp(tp) == put_time(localtime(to_time_t(tp)))

\* time_get's _M_extract_num: up to len digits, stopping at the first
\* non-digit or once the value passes max; fails without a digit or outside
\* min..max.
RECURSIVE ExtractDigits(_, _, _, _, _, _)
ExtractDigits(s, p, i, value, max, len) ==
  IF p < Len(s) /\ i < len /\ IsDigit(At(s, p))
  THEN LET v == value * 10 + DigitVal(At(s, p)) IN
         IF v > max THEN [val |-> v, pos |-> p, count |-> i]
         ELSE ExtractDigits(s, p + 1, i + 1, v, max, len)
  ELSE [val |-> value, pos |-> p, count |-> i]

NumOf(d, min, max) ==
  [ok |-> d.count > 0 /\ d.val >= min /\ d.val <= max, val |-> d.val, pos |-> d.pos]

ExtractNum(s, p, min, max, len) == NumOf(ExtractDigits(s, p, 0, 0, max, len), min, max)

\* The format "%Y-%m-%d %H:%M:%S" as time_get::get walks it.
TimeFormat ==
  << [kind |-> "num", field |-> "year", min |-> 0, max |-> 9999, len |-> 4],
     [kind |-> "lit", ch |-> "-"],
     [kind |-> "num", field |-> "mon", min |-> 1, max |-> 12, len |-> 2],
     [kind |-> "lit", ch |-> "-"],
     [kind |-> "num", field |-> "mday", min |-> 1, max |-> 31, len |-> 2],
     [kind |-> "space"],
     [kind |-> "num", field |-> "hour", min |-> 0, max |-> 23, len |-> 2],
     [kind |-> "lit", ch |-> ":"],
     [kind |-> "num", field |-> "min", min |-> 0, max |-> 59, len |-> 2],
     [kind |-> "lit", ch |-> ":"],
     [kind |-> "num", field |-> "sec", min |-> 0, max |-> 60, len |-> 2] >>

\* std::tm tm = {} seen as a calendar date: tm_year 0 is 1900, tm_mon 0 is
\* January, tm_mday 0 is the day before the first.
ZeroTm == [year |-> 1900, mon |-> 1, mday |-> 0, hour |-> 0, min |-> 0, sec |-> 0]

\* time_get::get: stops with failbit when the input ends before a format
\* item, or a number or literal does not match; stops without failbit when a
\* conversion consumed the last character of the input.
RECURSIVE GetTimeFrom(_, _, _, _)

\* A conversion of the format, given the number n read for field f.
GetTimeNum(s, i, tm, f, n) ==
  IF ~n.ok THEN [ok |-> FALSE, tm |-> tm]
  ELSE IF n.pos >= Len(s)
  THEN [ok |-> TRUE, tm |-> [tm EXCEPT ![f.field] = n.val]]
  ELSE GetTimeFrom(s, n.pos, i + 1, [tm EXCEPT ![f.field] = n.val])

\* Where the number of the conversion f starts: %d steps over one whitespace
\* character before the day, the other conversions over none.
NumStart(s, p, f) == IF f.field = "mday" /\ IsSpace(At(s, p)) THEN p + 1 ELSE p

GetTimeItem(s, p, i, tm, f) ==
  IF f.kind = "num"
  THEN GetTimeNum(s, i, tm, f, ExtractNum(s, NumStart(s, p, f), f.min, f.max, f.len))
  ELSE IF f.kind = "space" THEN GetTimeFrom(s, SkipWs(s, p), i + 1, tm)
  ELSE IF At(s, p) = f.ch THEN GetTimeFrom(s, p + 1, i + 1, tm)
  ELSE [ok |-> FALSE, tm |-> tm]

GetTimeFrom(s, p, i, tm) ==
  IF i > Len(TimeFormat) THEN [ok |-> TRUE, tm |-> tm]
  ELSE IF p >= Len(s) THEN [ok |-> FALSE, tm |-> tm]
  ELSE GetTimeItem(s, p, i, tm, TimeFormat[i])

\* ss >> std::get_time(&tm, fmt): leading whitespace is skipped first.
get_time(s) == GetTimeFrom(s, SkipWs(s, 0), 1, ZeroTm)

\* Lines 56-61: the time point of mktime's result, -1 reporting failure;
\* overflow tells that from_time_t overflowed on the way.
TimePointOf(time) ==
  IF time = time_t(-1)
  THEN [tp |-> from_time_t(time_t(0)), diag |-> <<"timestamp_convert_failed">>,
        overflow |-> FALSE]
  ELSE [tp |-> from_time_t(time), diag |-> <<>>, overflow |-> Overflows(time)]

\* Lines 51-61, given what get_time made of the string.
TimestampOf(g) ==
  IF ~g.ok
  THEN [tp |-> from_time_t(time_t(0)), diag |-> <<"timestamp_parse_failed">>,
        overflow |-> FALSE]
  ELSE TimePointOf(mktime(g.tm))

\* parseTimestamp: the time point and the warning it prints, if any.
parseTimestamp(timestampStr) == TimestampOf(get_time(timestampStr))

-----------------------------------------------------------------------------
(* ObjectParser: parseTaskObject *)

KeyId == <<"i", "d">>
KeyDescription == <<"d", "e", "s", "c", "r", "i", "p", "t", "i", "o", "n">>
KeyStatus == <<"s", "t", "a", "t", "u", "s">>
KeyCreatedAt == <<"c", "r", "e", "a", "t", "e", "d", "A", "t">>
KeyUpdatedAt == <<"u", "p", "d", "a", "t", "e", "d", "A", "t">>

\* The locals of parseTaskObject before the loop; ch holds the '{' just read.
\* killedAt is empty while no call of from_time_t has overflowed; after the
\* first one it holds the task and the messages as they were at that call,
\* which is where a build that traps signed overflow is killed.
ParseLocals(task) ==
  [task |-> task, key |-> <<>>, valueStr |-> <<>>, numeric_id_value |-> -1,
   ch |-> "{", diag |-> <<>>, killedAt |-> <<>>]

\* The locals after a call of parseTimestamp with the outcome t: what it
\* printed follows what was printed before, and the first overflow is
\* recorded with the task as it was before the assignment.
Stamped(st, t) ==
  [st EXCEPT !.killedAt = IF @ = <<>> /\ t.overflow
                          THEN <<[task |-> st.task, diag |-> st.diag]>>
                          ELSE @,
             !.diag = @ \o t.diag]

ParseFail(st, p, msg) ==
  [ok |-> FALSE, pos |-> p, st |-> [st EXCEPT !.diag = Append(@, msg)]]

\* The locals once the key, the value string and the number are stored.
WithValue(st, key, valueStr, num) ==
  [st EXCEPT !.key = key, !.valueStr = valueStr, !.numeric_id_value = num]

\* task.createdAt = parseTimestamp(valueStr), t being the call's outcome.
SetCreatedAt(st, t) ==
  [ok |-> TRUE, st |-> [Stamped(st, t) EXCEPT !.task.createdAt = t.tp]]

\* A variant of SetUpdatedAt that stores the time point in both fields.
SetBothStamps(st, t) ==
  [ok |-> TRUE, st |-> [Stamped(st, t) EXCEPT !.task.createdAt = t.tp,
                                              !.task.updatedAt = t.tp]]

\* task.updatedAt = parseTimestamp(valueStr), t being the call's outcome.
SetUpdatedAt(st, t) ==
  [ok |-> TRUE, st |-> [Stamped(st, t) EXCEPT !.task.updatedAt = t.tp]]

\* The if/else chain on the key, on locals that hold the value just read.
AssignTo(base, key, valueStr, num, value_is_numeric) ==
  IF key = KeyId
  THEN IF ~value_is_numeric
       THEN [ok |-> FALSE, st |-> [base EXCEPT !.diag = Append(@, "id_not_numeric")]]
       ELSE [ok |-> TRUE, st |-> [base EXCEPT !.task.id = num]]
  ELSE IF key = KeyDescription
  THEN [ok |-> TRUE, st |-> [base EXCEPT !.task.description = valueStr]]
  ELSE IF key = KeyStatus
  THEN [ok |-> TRUE, st |-> [base EXCEPT !.task.status = stringToStatus(valueStr)]]
  ELSE IF key = KeyCreatedAt THEN SetCreatedAt(base, parseTimestamp(valueStr))
  ELSE IF key = KeyUpdatedAt THEN SetUpdatedAt(base, parseTimestamp(valueStr))
  ELSE [ok |-> TRUE, st |-> [base EXCEPT !.diag = Append(@, "unknown_key")]]

\* Step 4 of the loop body: store the value just read under its key.
AssignField(st, key, valueStr, num, value_is_numeric) ==
  AssignTo(WithValue(st, key, valueStr, num), key, valueStr, num, value_is_numeric)

\* ch = ss.peek(): the int peek returns, stored in a char. char is signed in
\* this build, so the byte 0xff becomes -1, the value of EOF.
CharOf(c) == IF c = BYTE_FF THEN EOF ELSE c

\* A variant of SeparatorAt that takes any character for the comma.
SeparatorAny(s, q, c, st) ==
  IF c = "}" THEN [ok |-> TRUE, pos |-> q, st |-> [st EXCEPT !.ch = c]]
  ELSE IF CharOf(c) = EOF THEN ParseFail([st EXCEPT !.ch = EOF], q, "eof_after_value")
  ELSE [ok |-> TRUE, pos |-> SkipWs(s, q + 1), st |-> [st EXCEPT !.ch = c]]

\* The separator test on the character c found at position q.
SeparatorAt(s, q, c, st) ==
  IF c = "," THEN [ok |-> TRUE, pos |-> SkipWs(s, q + 1), st |-> [st EXCEPT !.ch = c]]
  ELSE IF c = "}" THEN [ok |-> TRUE, pos |-> q, st |-> [st EXCEPT !.ch = c]]
  ELSE IF CharOf(c) = EOF THEN ParseFail([st EXCEPT !.ch = EOF], q, "eof_after_value")
  ELSE ParseFail([st EXCEPT !.ch = c], q, "expected_comma_or_brace")

SeparatorFrom(s, q, st) == SeparatorAt(s, q, Peek(s, q), st)

\* Step 5 of the loop body: a comma (consumed, with the whitespace after it)
\* or the closing brace (left for the loop condition) must follow the value.
AfterValue(s, p, st) == SeparatorFrom(s, SkipWs(s, p), st)

\* Steps 4 and 5, a being the outcome of the assignment.
AfterAssign(s, p, a) ==
  IF ~a.ok THEN [ok |-> FALSE, pos |-> p, st |-> a.st]
  ELSE AfterValue(s, p, a.st)

\* A variant of QuotedValue in which value_is_numeric is still set from an
\* earlier pair.
QuotedValueNumeric(s, st, v) ==
  IF ~v.ok
  THEN ParseFail([st EXCEPT !.valueStr = v.str], v.pos, "quoted_value_not_read")
  ELSE AfterAssign(s, v.pos,
                   AssignField(st, st.key, v.str, st.numeric_id_value, TRUE))

\* Step 3 for a value that starts with a quote, v being what was read.
QuotedValue(s, st, v) ==
  IF ~v.ok
  THEN ParseFail([st EXCEPT !.valueStr = v.str], v.pos, "quoted_value_not_read")
  ELSE AfterAssign(s, v.pos,
                   AssignField(st, st.key, v.str, st.numeric_id_value, FALSE))

\* Step 3 for any other value, n being the integer read.
NumericValue(s, st, n) ==
  IF ~n.ok
  THEN ParseFail([st EXCEPT !.numeric_id_value = n.val], n.pos,
                 "numeric_value_not_read")
  ELSE AfterAssign(s, n.pos, AssignField(st, st.key, st.valueStr, n.val, TRUE))

\* Steps 2 and 3: the colon test, then the value that starts at p.
ReadValue(s, p, st) ==
  IF st.ch # ":" THEN ParseFail(st, p, "expected_colon")
  ELSE IF Peek(s, p) = QUOTE THEN QuotedValue(s, st, ReadQuoted(s, p, st.valueStr))
  ELSE NumericValue(s, st, ReadInt(s, p, st.numeric_id_value))

\* ss >> std::ws >> ch >> std::ws from position p: ch keeps its old value at
\* the end of the text.
ReadColon(s, p, st) ==
  IF p < Len(s) THEN ReadValue(s, SkipWs(s, p + 1), [st EXCEPT !.ch = At(s, p)])
  ELSE ReadValue(s, p, st)

\* Step 1, k being what was read for the key.
AfterKey(s, st, k) ==
  IF ~k.ok THEN ParseFail([st EXCEPT !.key = k.str], k.pos, "key_not_read")
  ELSE ReadColon(s, SkipWs(s, k.pos), [st EXCEPT !.key = k.str])

\* One pass of the while loop: key, colon, value, assignment, separator.
ParsePair(s, p, st) == AfterKey(s, st, ReadQuoted(s, p, st.key))

\* while (ss.peek() != EOF && ss.peek() != '}') { ... }, then the final '}'.
RECURSIVE ParsePairs(_, _, _)

NextPair(s, r) ==
  IF ~r.ok
  THEN [ok |-> FALSE, task |-> r.st.task, diag |-> r.st.diag,
        killedAt |-> r.st.killedAt]
  ELSE ParsePairs(s, r.pos, r.st)

ParsePairs(s, p, st) ==
  IF Peek(s, p) # EOF /\ Peek(s, p) # "}" THEN NextPair(s, ParsePair(s, p, st))
  ELSE [ok |-> TRUE, task |-> st.task, diag |-> st.diag, killedAt |-> st.killedAt]

\* parseTaskObject(objStr, task): whether the object was accepted, the task
\* as the call leaves it, the diagnostics it printed, and where a build that
\* traps is killed.
parseTaskObject(objStr, task) ==
  IF objStr = <<>> \/ Head(objStr) # "{" \/ objStr[Len(objStr)] # "}"
  THEN [ok |-> FALSE, task |-> task, diag |-> <<"object_missing_braces">>,
        killedAt |-> <<>>]
  ELSE ParsePairs(objStr, SkipWs(objStr, 1), ParseLocals(task))

-----------------------------------------------------------------------------
(* Serializer: the text saveTasks writes *)

Quoted(s) == <<QUOTE>> \o s \o <<QUOTE>>

Indent == <<" ", " ", " ">>

\* outputFile << "   \"key\": "
FieldStart(key) == Indent \o Quoted(key) \o <<":", " ">>

\* Lines 316-327: the object of one task, from " {" to " }".
ObjectText(task) ==
  <<" ", "{", NL>>
    \o FieldStart(KeyId) \o IntToText(task.id) \o <<",", NL>>
    \o FieldStart(KeyDescription) \o Quoted(escapeJsonString(task.description))
    \o <<",", NL>>
    \o FieldStart(KeyStatus) \o Quoted(statusToString(task.status)) \o <<",", NL>>
    \o FieldStart(KeyCreatedAt) \o Quoted(formatTimestamp(task.createdAt)) \o <<",", NL>>
    \o FieldStart(KeyUpdatedAt) \o Quoted(formatTimestamp(task.updatedAt)) \o <<NL>>
    \o <<" ", "}">>

\* A variant of NeedsComma that puts a comma after every object.
AlwaysComma(tasks, i) == TRUE

\* Line 331: i < tasks.size() - 1 in the code's 0-based count; i is 1-based.
NeedsComma(tasks, i) == i < Len(tasks)

\* One pass of the for loop: the object of tasks[i], a comma unless it is the
\* last one, and the end of the line.
TaskText(tasks, i) ==
  ObjectText(tasks[i]) \o (IF NeedsComma(tasks, i) THEN <<",">> ELSE <<>>) \o <<NL>>

RECURSIVE TasksText(_, _)
TasksText(tasks, i) ==
  IF i > Len(tasks) THEN <<>> ELSE TaskText(tasks, i) \o TasksText(tasks, i + 1)

\* Everything saveTasks streams into the opened file.
SerializeTasks(tasks) == <<"[", NL>> \o TasksText(tasks, 1) \o <<"]", NL>>

\* A variant of saveTasks in which the open truncates the file before it
\* fails.
saveTasksTruncating(f, tasks) ==
  IF ~f.writable THEN [file |-> [f EXCEPT !.text = <<>>], diag |-> <<"save_open_failed">>]
  ELSE [file |-> [f EXCEPT !.exists = TRUE, !.text = SerializeTasks(tasks)],
        diag |-> <<>>]

\* A variant of saveTasks that writes after what the file already holds.
saveTasksAppending(f, tasks) ==
  IF ~f.writable THEN [file |-> f, diag |-> <<"save_open_failed">>]
  ELSE [file |-> [f EXCEPT !.exists = TRUE, !.text = @ \o SerializeTasks(tasks)],
        diag |-> <<>>]

\* saveTasks on the file f: the file afterwards and what was printed to
\* std::cerr. A file that cannot be opened for writing is left as it is.
saveTasks(f, tasks) ==
  IF ~f.writable THEN [file |-> f, diag |-> <<"save_open_failed">>]
  ELSE [file |-> [f EXCEPT !.exists = TRUE, !.text = SerializeTasks(tasks)],
        diag |-> <<>>]

-----------------------------------------------------------------------------
(* Commands: what main does with the loaded list *)

\* std::max_element over the ids.
MaxId(tasks) ==
  CHOOSE m \in {tasks[i].id : i \in DOMAIN tasks} :
    \A i \in DOMAIN tasks : tasks[i].id <= m

\* The least int.
INT_MIN == (0 - INT_MAX) - 1

\* What maxIt->id + 1 can come to (line 26). At INT_MAX the addition
\* overflows a signed int, which the language leaves undefined: the builds of
\* the program either wrap around to INT_MIN or trap and abort the process.
NextIdOf(max) ==
  IF max = INT_MAX THEN {[trap |-> FALSE, id |-> INT_MIN], [trap |-> TRUE, id |-> 0]}
  ELSE {[trap |-> FALSE, id |-> max + 1]}

\* generateNextId: 1 for the empty list, else the largest id plus one; the
\* set holds every outcome the call can have.
generateNextId(tasks) ==
  IF tasks = <<>> THEN {[trap |-> FALSE, id |-> 1]}
  ELSE NextIdOf(MaxId(tasks))

\* The predicate of remove_if in deleteTask, negated: the task stays.
KeepsId(t, id) == t.id # id

\* A variant of deleteTask that removes the first task with the id only.
deleteFirstOnly(tasks, id) ==
  [tasks   |-> [i \in 1..(Len(tasks) - (IF \E k \in DOMAIN tasks : tasks[k].id = id
                                          THEN 1 ELSE 0)) |->
                  IF \E k \in 1..i : tasks[k].id = id THEN tasks[i + 1] ELSE tasks[i]],
   removed |-> \E i \in DOMAIN tasks : tasks[i].id = id]

\* deleteTask: every task with the id is removed; removed tells whether there
\* was one.
deleteTask(tasks, id) ==
  [tasks   |-> SelectSeq(tasks, LAMBDA t : KeepsId(t, id)),
   removed |-> \E i \in DOMAIN tasks : tasks[i].id = id]

\* addTask: a new TODO task at the end, created and updated now; newId is
\* the id generateNextId returned.
addTask(tasks, description, now, newId) ==
  Append(tasks, [id |-> newId, description |-> description,
                 status |-> "TODO", createdAt |-> now, updatedAt |-> now])

\* A variant of findTaskById that returns the place of the last task with
\* the id.
findLastById(tasks, id) ==
  IF \E i \in DOMAIN tasks : tasks[i].id = id
  THEN CHOOSE i \in DOMAIN tasks :
         tasks[i].id = id /\ \A j \in (i + 1)..Len(tasks) : tasks[j].id # id
  ELSE 0

\* findTaskById: the place of the first task with the id, 0 for tasks.end().
findTaskById(tasks, id) ==
  IF \E i \in DOMAIN tasks : tasks[i].id = id
  THEN CHOOSE i \in DOMAIN tasks :
         tasks[i].id = id /\ \A j \in 1..(i - 1) : tasks[j].id # id
  ELSE 0

\* updateTask past the lookup: it is the place findTaskById returned.
UpdatedAt(tasks, it, newDescription, now) ==
  IF it = 0 THEN [tasks |-> tasks, found |-> FALSE]
  ELSE [tasks |-> [tasks EXCEPT ![it].description = newDescription,
                                ![it].updatedAt = now],
        found |-> TRUE]

\* updateTask: the first task with the id gets the description and is
\* updated now; found tells whether there was one.
updateTask(tasks, id, newDescription, now) ==
  UpdatedAt(tasks, findTaskById(tasks, id), newDescription, now)

\* markTaskStatus past the lookup.
MarkedAt(tasks, it, status, now) ==
  IF it = 0 THEN [tasks |-> tasks, found |-> FALSE]
  ELSE [tasks |-> [tasks EXCEPT ![it].status = status, ![it].updatedAt = now],
        found |-> TRUE]

\* markTaskStatus: the first task with the id gets the status and is updated
\* now.
markTaskStatus(tasks, id, status, now) ==
  MarkedAt(tasks, findTaskById(tasks, id), status, now)

\* std::stoi past the sign: no digit throws std::invalid_argument, a value
\* outside int throws std::out_of_range; thrown names the handler of main
\* that catches it.
StoiOf(neg, d) ==
  IF d.count = 0 THEN [ok |-> FALSE, val |-> 0, thrown |-> "invalid_argument"]
  ELSE IF ~IntOf(neg, d).ok THEN [ok |-> FALSE, val |-> 0, thrown |-> "out_of_range"]
  ELSE [ok |-> TRUE, val |-> IntOf(neg, d).val, thrown |-> "none"]

StoiAt(str, q) ==
  StoiOf(Peek(str, q) = "-",
         ReadDigits(str, IF Peek(str, q) \in {"-", "+"} THEN q + 1 ELSE q, 0, 0, "int"))

\* std::stoi(argv[2]): leading white space is skipped, an optional sign and
\* the decimal digits are read, and whatever follows the digits is ignored.
stoi(str) == StoiAt(str, SkipWs(str, 0))

\* listTasks: the tasks it prints, all of them for the empty filter.
listTasks(tasks, filterStatus) ==
  IF filterStatus = <<>> THEN tasks
  ELSE SelectSeq(tasks, LAMBDA t : t.status = stringToStatus(filterStatus))

\* What a branch of main leaves behind: the list, the flag tasksModified,
\* what it printed to std::cerr, the tasks it listed and the value main
\* returns.
Outcome(list, modified, d, status) ==
  [tasks |-> list, tasksModified |-> modified, diag |-> d, listed |-> <<>>,
   status |-> status]

\* A branch that returns 1 or throws: the list is as it was loaded.
Rejected(tasks, d) == Outcome(tasks, FALSE, <<d>>, 1)

\* A branch that looked a task up: list and found are what the command left
\* and returned.
Applied(list, found) ==
  Outcome(list, found, IF found THEN <<>> ELSE <<"task_not_found">>, 0)

\* The process was aborted by a trap: nothing more is done, and the shell
\* sees the status of SIGABRT.
Trapped(tasks) == Outcome(tasks, FALSE, <<"aborted">>, 134)

\* main, lines 40-48; args is argv from argv[2] on, next an outcome of
\* generateNextId.
AddBranch(tasks, args, now, next) ==
  IF Len(args) # 1 THEN Rejected(tasks, "add_usage")
  ELSE IF next.trap THEN Trapped(tasks)
  ELSE Outcome(addTask(tasks, args[1], now, next.id), TRUE, <<>>, 0)

UpdateDone(r) == Applied(r.tasks, r.found)

\* main, lines 56-60, id being the outcome of std::stoi.
UpdateWith(tasks, id, newDescription, now) ==
  IF ~id.ok THEN Rejected(tasks, id.thrown)
  ELSE UpdateDone(updateTask(tasks, id.val, newDescription, now))

\* main, lines 49-60.
UpdateBranch(tasks, args, now) ==
  IF Len(args) # 2 THEN Rejected(tasks, "update_usage")
  ELSE UpdateWith(tasks, stoi(args[1]), args[2], now)

DeleteDone(r) == Applied(r.tasks, r.removed)

\* main, lines 67-70.
DeleteWith(tasks, id) ==
  IF ~id.ok THEN Rejected(tasks, id.thrown)
  ELSE DeleteDone(deleteTask(tasks, id.val))

\* main, lines 61-70.
DeleteBranch(tasks, args) ==
  IF Len(args) # 1 THEN Rejected(tasks, "delete_usage")
  ELSE DeleteWith(tasks, stoi(args[1]))

\* main, lines 77-80 and 87-90.
MarkWith(tasks, id, status, now) ==
  IF ~id.ok THEN Rejected(tasks, id.thrown)
  ELSE UpdateDone(markTaskStatus(tasks, id.val, status, now))

\* main, lines 71-80 (status IN_PROGRESS) and 81-90 (status DONE).
MarkBranch(tasks, args, status, now) ==
  IF Len(args) # 1 THEN Rejected(tasks, "mark_usage")
  ELSE MarkWith(tasks, stoi(args[1]), status, now)

\* The filters the list command takes (line 95).
ListFilters == {statusToString("TODO"), statusToString("IN_PROGRESS"),
                statusToString("DONE")}

\* main, line 105.
Listed(tasks, filterStatus) ==
  [tasks |-> tasks, tasksModified |-> FALSE, diag |-> <<>>,
   listed |-> listTasks(tasks, filterStatus), status |-> 0]

\* main, lines 91-105.
ListBranch(tasks, args) ==
  IF Len(args) = 1
  THEN (IF args[1] \notin ListFilters THEN Rejected(tasks, "list_filter_invalid")
        ELSE Listed(tasks, args[1]))
  ELSE IF Len(args) > 1 THEN Rejected(tasks, "list_usage")
  ELSE Listed(tasks, <<>>)

-----------------------------------------------------------------------------
(* FileParser: the steps of loadTasks as functions of its locals *)

\* std::string::npos
NPOS == -1

\* A variant of Find that looks at the position from only.
FindHere(s, c, from) ==
  IF from < Len(s) /\ At(s, from) = c THEN from ELSE NPOS

\* content.find(c, from): the least position >= from holding c.
Find(s, c, from) ==
  IF \E i \in from..(Len(s) - 1) : At(s, i) = c
  THEN CHOOSE i \in from..(Len(s) - 1) :
         At(s, i) = c /\ \A j \in from..(i - 1) : At(s, j) # c
  ELSE NPOS

\* content.find_first_not_of(" \t\n\r")
FirstNotTrim(s) ==
  IF \E i \in 0..(Len(s) - 1) : ~IsTrimChar(At(s, i))
  THEN CHOOSE i \in 0..(Len(s) - 1) :
         ~IsTrimChar(At(s, i)) /\ \A j \in 0..(i - 1) : IsTrimChar(At(s, j))
  ELSE NPOS

\* content.find_last_not_of(" \t\n\r")
LastNotTrim(s) ==
  IF \E i \in 0..(Len(s) - 1) : ~IsTrimChar(At(s, i))
  THEN CHOOSE i \in 0..(Len(s) - 1) :
         ~IsTrimChar(At(s, i)) /\ \A j \in (i + 1)..(Len(s) - 1) : IsTrimChar(At(s, j))
  ELSE NPOS

\* content.erase(content.find_last_not_of(" \t\n\r") + 1)
TrimRight(s) == Substr(s, 0, LastNotTrim(s) + 1)

\* content.erase(0, first): erase(0, npos) empties the string.
TrimLeft(s, first) == IF first = NPOS THEN <<>> ELSE From(s, first)

\* The two erase calls of lines 227-228.
TrimContent(s) == TrimRight(TrimLeft(s, FirstNotTrim(s)))

\* A variant of BadFraming that does not look at the last character.
BadFramingFront(content) == Len(content) <= 1 \/ Head(content) # "["

\* The framing test: content.length() <= 1 || front != '[' || back != ']'.
BadFraming(content) ==
  Len(content) <= 1 \/ Head(content) # "[" \/ content[Len(content)] # "]"

\* Lines 231-242: the framing test on the trimmed content.
FramingResult(content) ==
  IF BadFraming(content)
  THEN [pc |-> "ReturnedEmpty", content |-> content,
        diag |-> IF content # <<>> THEN <<"file_malformed">> ELSE <<>>]
  ELSE [pc |-> "ScanningForObject", content |-> content, diag |-> <<>>]

\* Lines 212-242: open and read the file, trim, validate the framing.
OpenResult(f) ==
  IF ~f.exists
  THEN [pc |-> "ReturnedEmpty", content |-> <<>>, diag |-> <<>>]
  ELSE FramingResult(TrimContent(f.text))

\* Lines 244-249: the outer loop condition and the search for the next '{'.
ScanResult(content, startPos) ==
  IF startPos < Len(content) - 1
  THEN Find(content, "{", startPos)
  ELSE NPOS

\* A variant of BraceStep that stops at the first '}' whatever the depth.
BraceStepFlat(content, st) ==
  IF st.done \/ ~(st.objEndPos < Len(content) - 1) THEN [st EXCEPT !.done = TRUE]
  ELSE IF At(content, st.objEndPos) = "}"
  THEN [st EXCEPT !.braceLevel = 0, !.done = TRUE]
  ELSE [st EXCEPT !.objEndPos = @ + 1]

\* One pass of the inner loop (lines 254-264) on its locals; done is set by
\* the break and by the loop condition turning false.
BraceStep(content, st) ==
  IF st.done \/ ~(st.objEndPos < Len(content) - 1) THEN [st EXCEPT !.done = TRUE]
  ELSE IF At(content, st.objEndPos) = "{"
  THEN [st EXCEPT !.braceLevel = @ + 1, !.objEndPos = @ + 1]
  ELSE IF At(content, st.objEndPos) = "}"
  THEN IF st.braceLevel - 1 = 0
       THEN [st EXCEPT !.braceLevel = 0, !.done = TRUE]
       ELSE [st EXCEPT !.braceLevel = @ - 1, !.objEndPos = @ + 1]
  ELSE [st EXCEPT !.objEndPos = @ + 1]

\* 2^k passes of the inner loop (or fewer, once the loop has ended).
RECURSIVE BraceIter(_, _, _)

BraceHalf(content, half, k) ==
  IF half.done THEN half ELSE BraceIter(content, half, k)

BraceIter(content, st, k) ==
  IF k = 0 THEN BraceStep(content, st)
  ELSE BraceHalf(content, BraceIter(content, st, k - 1), k - 1)

\* The least k with 2^k >= n.
RECURSIVE Log2Ceil(_)
Log2Ceil(n) == IF n <= 1 THEN 0 ELSE 1 + Log2Ceil((n + 1) \div 2)

\* The two locals the inner loop leaves behind.
BraceLocals(st) == [objEndPos |-> st.objEndPos, braceLevel |-> st.braceLevel]

\* Lines 252-264: the inner loop run to its end, from objEndPos with the
\* given braceLevel to the matching '}' or to the last character of content.
BraceScan(content, objEndPos, braceLevel) ==
  BraceLocals(BraceIter(content,
                        [objEndPos |-> objEndPos, braceLevel |-> braceLevel,
                         done |-> FALSE],
                        Log2Ceil(Len(content) + 1)))

\* A variant of FreshTask that hands the parser the task of the object before.
ReusedTask(prev) == prev

\* Line 275: the task parseTaskObject fills for one object; prev is the task
\* of the object before it, which the code does not look at.
FreshTask(prev) == DefaultTask

\* A variant of ClearedTasks that keeps what was appended before the abort.
UnclearedTasks(list) == list

\* Line 268: tasks.clear() before the abort returns.
ClearedTasks(list) == <<>>

\* A variant of ResumePos that starts the scan over from the first object.
RestartPos(objEndPos) == 1

\* Line 281: where the scan resumes after the object ending at objEndPos.
ResumePos(objEndPos) == objEndPos + 1

\* A variant of KeepOrSkip that appends the task of a rejected object too.
KeepAlways(tasks, r) == Append(tasks, r.task)

\* Lines 276-279: the task of an accepted object is appended, a rejected
\* object leaves the list as it is.
KeepOrSkip(tasks, r) == IF r.ok THEN Append(tasks, r.task) ELSE tasks

\* Lines 273-281: r is what parseTaskObject made of taskStr, the object
\* ending at objEndPos; the task is kept or the object skipped, and startPos
\* moves on.
ObjectResult(objEndPos, tasks, taskStr, r) ==
  [pc |-> "ScanningForObject", objEndPos |-> objEndPos, braceLevel |-> 0,
   tasks |-> KeepOrSkip(tasks, r),
   diag |-> r.diag \o (IF r.ok THEN <<>> ELSE <<"skipping_object">>),
   startPos |-> ResumePos(objEndPos), accepted |-> r.ok, task |-> r.task,
   handed |-> <<taskStr>>, killedAt |-> r.killedAt]

\* Lines 266-281, b being the locals the inner loop left. On mismatched
\* braces the list is cleared and returned, and startPos is left as it was.
BalanceOutcome(content, startPos, objStartPos, tasks, lastTask, b) ==
  IF b.braceLevel # 0
  THEN [pc |-> "Aborted", objEndPos |-> b.objEndPos, braceLevel |-> b.braceLevel,
        tasks |-> ClearedTasks(tasks), diag |-> <<"mismatched_braces">>,
        startPos |-> startPos, accepted |-> FALSE, task |-> lastTask,
        handed |-> <<>>, killedAt |-> <<>>]
  ELSE ObjectResult(b.objEndPos, tasks,
                    Substr(content, objStartPos, b.objEndPos - objStartPos + 1),
                    parseTaskObject(Substr(content, objStartPos,
                                           b.objEndPos - objStartPos + 1),
                                    FreshTask(lastTask)))

\* Lines 251-282: balance the braces from objStartPos, then either abort the
\* whole load or parse the object, keep or skip it, and move startPos on.
BalanceResult(content, startPos, objStartPos, tasks, lastTask) ==
  BalanceOutcome(content, startPos, objStartPos, tasks, lastTask,
                 BraceScan(content, objStartPos, 0))

\* loadTasks as a function of the file, in a build that does not trap: the
\* list returned, what was printed to std::cerr, and whether a call of
\* from_time_t overflowed on the way (a build that traps is killed there).
RECURSIVE LoadLoop(_, _, _, _, _, _)

LoadAfterObject(content, diag, r, overflow) ==
  IF r.pc = "Aborted"
  THEN [tasks |-> r.tasks, diag |-> diag \o r.diag, end |-> "Aborted",
        overflow |-> overflow]
  ELSE LoadLoop(content, r.startPos, r.tasks, diag \o r.diag, r.task,
                overflow \/ r.killedAt # <<>>)

LoadFrom(content, startPos, objStartPos, tasks, diag, lastTask, overflow) ==
  IF objStartPos = NPOS
  THEN [tasks |-> tasks, diag |-> diag, end |-> "Done", overflow |-> overflow]
  ELSE LoadAfterObject(content, diag,
                       BalanceResult(content, startPos, objStartPos, tasks, lastTask),
                       overflow)

LoadLoop(content, startPos, tasks, diag, lastTask, overflow) ==
  LoadFrom(content, startPos, ScanResult(content, startPos), tasks, diag, lastTask,
           overflow)

LoadOpened(o) ==
  IF o.pc = "ReturnedEmpty"
  THEN [tasks |-> <<>>, diag |-> o.diag, end |-> "ReturnedEmpty", overflow |-> FALSE]
  ELSE LoadLoop(o.content, 1, <<>>, o.diag, DefaultTask, FALSE)

loadTasks(f) == LoadOpened(OpenResult(f))

-----------------------------------------------------------------------------
(* Sample inputs *)

\* The most objects a sample array holds.
MaxObjects == 2

\* The most times the program is run on the file.
MaxRuns == 2

\* {"id":1}
ObjId ==
  <<"{", "\"", "i", "d", "\"", ":", "1", "}">>

\* {"id": 2, "description": "b", "status": "done"}
ObjFull ==
  <<"{", "\"", "i", "d", "\"", ":", " ", "2", ",", " ", "\"", "d", "e", "s",
    "c", "r", "i", "p", "t", "i", "o", "n", "\"", ":", " ", "\"", "b", "\"",
    ",", " ", "\"", "s", "t", "a", "t", "u", "s", "\"", ":", " ", "\"", "d",
    "o", "n", "e", "\"", "}">>

\* {id:3,"description":"u"}
ObjUnquotedKey ==
  <<"{", "i", "d", ":", "3", ",", "\"", "d", "e", "s", "c", "r", "i", "p",
    "t", "i", "o", "n", "\"", ":", "\"", "u", "\"", "}">>

\* {"id":7
ObjOpen ==
  <<"{", "\"", "i", "d", "\"", ":", "7">>

\* {}
ObjEmpty ==
  <<"{", "}">>

\* {"description":"c","status":"done","id":"4"}
ObjQuotedId ==
  <<"{", "\"", "d", "e", "s", "c", "r", "i", "p", "t", "i", "o", "n", "\"",
    ":", "\"", "c", "\"", ",", "\"", "s", "t", "a", "t", "u", "s", "\"", ":",
    "\"", "d", "o", "n", "e", "\"", ",", "\"", "i", "d", "\"", ":", "\"",
    "4", "\"", "}">>

\* {"description":"n","x":{"id":5}}
ObjNested ==
  <<"{", "\"", "d", "e", "s", "c", "r", "i", "p", "t", "i", "o", "n", "\"",
    ":", "\"", "n", "\"", ",", "\"", "x", "\"", ":", "{", "\"", "i", "d",
    "\"", ":", "5", "}", "}">>

\* {"id":6,"description":"a<NL>b<TAB>c"}
ObjNewline ==
  <<"{", "\"", "i", "d", "\"", ":", "6", ",", "\"", "d", "e", "s", "c", "r",
    "i", "p", "t", "i", "o", "n", "\"", ":", "\"", "a", "\n", "b", "\t", "c",
    "\"", "}">>

\* {"id":8,"description":"q\"b\\c"}
ObjEscaped ==
  <<"{", "\"", "i", "d", "\"", ":", "8", ",", "\"", "d", "e", "s", "c", "r",
    "i", "p", "t", "i", "o", "n", "\"", ":", "\"", "q", "\\", "\"", "b",
    "\\", "\\", "c", "\"", "}">>

\* The objects the sample arrays are built from: two that ObjectParser
\* accepts, one it rejects, one whose closing brace is missing.
ListSamples == {ObjId, ObjFull, ObjUnquotedKey, ObjOpen}

ObjectLists == UNION {[1..n -> ListSamples] : n \in 0..MaxObjects}

\* Objects that are only tried alone in their array.
SingleSamples == {ObjEmpty, ObjQuotedId, ObjNested, ObjNewline, ObjEscaped}

\* Whitespace around the array, which loadTasks trims.
Paddings == {<<>>, <<" ", NL>>}

RECURSIVE JoinWith(_, _, _)
JoinWith(parts, sep, i) ==
  IF i > Len(parts) THEN <<>>
  ELSE parts[i] \o (IF i < Len(parts) THEN sep ELSE <<>>) \o JoinWith(parts, sep, i + 1)

\* A file text holding the objects objs between brackets.
ArrayText(objs, pad) == pad \o <<"[">> \o JoinWith(objs, <<",">>, 1) \o <<"]">> \o pad

\* "id": 5
PairId ==
  <<"\"", "i", "d", "\"", ":", " ", "5">>

\* "description": "d"
PairDescription ==
  <<"\"", "d", "e", "s", "c", "r", "i", "p", "t", "i", "o", "n", "\"", ":",
    " ", "\"", "d", "\"">>

\* "status": "in-progress"
PairStatus ==
  <<"\"", "s", "t", "a", "t", "u", "s", "\"", ":", " ", "\"", "i", "n", "-",
    "p", "r", "o", "g", "r", "e", "s", "s", "\"">>

\* "createdAt": "2024-01-02 03:04:05"
PairCreatedAt ==
  <<"\"", "c", "r", "e", "a", "t", "e", "d", "A", "t", "\"", ":", " ", "\"",
    "2", "0", "2", "4", "-", "0", "1", "-", "0", "2", " ", "0", "3", ":",
    "0", "4", ":", "0", "5", "\"">>

\* "updatedAt": "2024-02-29 23:59:59"
PairUpdatedAt ==
  <<"\"", "u", "p", "d", "a", "t", "e", "d", "A", "t", "\"", ":", " ", "\"",
    "2", "0", "2", "4", "-", "0", "2", "-", "2", "9", " ", "2", "3", ":",
    "5", "9", ":", "5", "9", "\"">>

\* "x": "v"
PairUnknownText ==
  <<"\"", "x", "\"", ":", " ", "\"", "v", "\"">>

\* "x": 7
PairUnknownInt ==
  <<"\"", "x", "\"", ":", " ", "7">>

\* "x": 99999999999
PairUnknownBigInt ==
  <<"\"", "x", "\"", ":", " ", "9", "9", "9", "9", "9", "9", "9", "9", "9",
    "9", "9">>

\* The five recognized keys, each with a well-formed value.
BasePairs == <<PairId, PairDescription, PairStatus, PairCreatedAt, PairUpdatedAt>>

\* Pairs with a key that is none of the five.
UnknownPairs == {PairUnknownText, PairUnknownInt, PairUnknownBigInt}

\* The object with the given pairs.
ObjectOfPairs(pairs) == <<"{">> \o JoinWith(pairs, <<",", " ">>, 1) \o <<"}">>

\* pairs with e put after its first k elements.
InsertAt(pairs, k, e) == SubSeq(pairs, 1, k) \o <<e>> \o SubSeq(pairs, k + 1, Len(pairs))

\* 2024-01-02 03:04:05
StampValid ==
  <<"2", "0", "2", "4", "-", "0", "1", "-", "0", "2", " ", "0", "3", ":",
    "0", "4", ":", "0", "5">>

\* garbage
StampWord ==
  <<"g", "a", "r", "b", "a", "g", "e">>

\* 
StampEmpty ==
  <<>>

\* 2023-06-07
StampDateOnly ==
  <<"2", "0", "2", "3", "-", "0", "6", "-", "0", "7">>

\* 2023-01-01T10:00:00
StampIsoT ==
  <<"2", "0", "2", "3", "-", "0", "1", "-", "0", "1", "T", "1", "0", ":",
    "0", "0", ":", "0", "0">>

\* 2023-13-01 10:00:00
StampMonth13 ==
  <<"2", "0", "2", "3", "-", "1", "3", "-", "0", "1", " ", "1", "0", ":",
    "0", "0", ":", "0", "0">>

\* 2023-01-01 24:00:00
StampHour24 ==
  <<"2", "0", "2", "3", "-", "0", "1", "-", "0", "1", " ", "2", "4", ":",
    "0", "0", ":", "0", "0">>

\* 2023-02-30 10:00:00
StampFeb30 ==
  <<"2", "0", "2", "3", "-", "0", "2", "-", "3", "0", " ", "1", "0", ":",
    "0", "0", ":", "0", "0">>

\* 2023-01-01 10:00:00junk
StampTrailing ==
  <<"2", "0", "2", "3", "-", "0", "1", "-", "0", "1", " ", "1", "0", ":",
    "0", "0", ":", "0", "0", "j", "u", "n", "k">>

\* 2023-1-5 1:2:3
StampShort ==
  <<"2", "0", "2", "3", "-", "1", "-", "5", " ", "1", ":", "2", ":", "3">>

TimestampSamples ==
  {StampValid, StampWord, StampEmpty, StampDateOnly, StampIsoT, StampMonth13,
   StampHour24, StampFeb30, StampTrailing, StampShort}

TimestampKeys == {KeyCreatedAt, KeyUpdatedAt}

\* "key": "value"
QuotedPair(key, value) == Quoted(key) \o <<":", " ">> \o Quoted(value)

\* 2263-01-01 00:00:00
Stamp2263 ==
  <<"2", "2", "6", "3", "-", "0", "1", "-", "0", "1", " ", "0", "0", ":", "0", "0", ":", "0", "0">>

\* 9999-12-31 23:59:59
Stamp9999 ==
  <<"9", "9", "9", "9", "-", "1", "2", "-", "3", "1", " ", "2", "3", ":", "5", "9", ":", "5", "9">>

\* Well-formed timestamps whose seconds times 10^9 are beyond the 64-bit
\* integer (the last second that fits is 2262-04-11 23:47:16).
WideStamps == {Stamp2263, Stamp9999}

\* An object with id, description and status, and one timestamp field.
StampObject(key, value) ==
  ObjectOfPairs(<<PairId, PairDescription, PairStatus, QuotedPair(key, value)>>)

\* the empty text
TextEmpty ==
  <<>>

\*  <NL><TAB><CR> 
TextSpaces ==
  <<" ", "\n", "\t", "\r", " ">>

\* <FF><VT>
TextFormFeed ==
  <<"\f", "<VT>">>

\* {}
TextObject ==
  <<"{", "}">>

\* [
TextOpenBracket ==
  <<"[">>

\* [{"id":1}
TextNoClose ==
  <<"[", "{", "\"", "i", "d", "\"", ":", "1", "}">>

\* {"id":1}]
TextNoOpen ==
  <<"{", "\"", "i", "d", "\"", ":", "1", "}", "]">>

\* tasks
TextWord ==
  <<"t", "a", "s", "k", "s">>

\* [{"id":1]
TextMissingBrace ==
  <<"[", "{", "\"", "i", "d", "\"", ":", "1", "]">>

\* [x{"id":1}y{"id":2};]
TextJunkBetween ==
  <<"[", "x", "{", "\"", "i", "d", "\"", ":", "1", "}", "y", "{", "\"", "i",
    "d", "\"", ":", "2", "}", ";", "]">>

SpecialTexts ==
  {TextEmpty, TextSpaces, TextFormFeed, TextObject, TextOpenBracket, TextNoClose,
   TextNoOpen, TextWord, TextMissingBrace, TextJunkBetween}

\* tasks.json does not exist (or cannot be opened for reading).
AbsentFile == [exists |-> FALSE, text |-> <<>>, writable |-> TRUE]

FileOf(text) == [exists |-> TRUE, text |-> text, writable |-> TRUE]

\* The file f where it cannot be opened for writing.
ReadOnly(f) == [f EXCEPT !.writable = FALSE]

\* say "hi" \ bye
DescQuotes ==
  <<"s", "a", "y", " ", "\"", "h", "i", "\"", " ", "\\", " ", "b", "y", "e">>

\* a<NL>b<TAB>c
DescControl ==
  <<"a", "\n", "b", "\t", "c">>

\* The descriptions given to the add command.
Descriptions == {DescQuotes, DescControl}

\* {"id":-5}
ObjNegativeId ==
  <<"{", "\"", "i", "d", "\"", ":", "-", "5", "}">>

\* {id : 1}
ObjBareKeySpaced ==
  <<"{", "i", "d", " ", ":", " ", "1", "}">>

\* { id :1}
ObjBareKeyLead ==
  <<"{", " ", "i", "d", " ", ":", "1", "}">>

\* {id :1, description : "x"}
ObjBareKeys ==
  <<"{", "i", "d", " ", ":", "1", ",", " ", "d", "e", "s", "c", "r", "i",
    "p", "t", "i", "o", "n", " ", ":", " ", "\"", "x", "\"", "}">>

\* {"a":{"b":{"id":9}},"id":5}
ObjDeep ==
  <<"{", "\"", "a", "\"", ":", "{", "\"", "b", "\"", ":", "{", "\"", "i",
    "d", "\"", ":", "9", "}", "}", ",", "\"", "i", "d", "\"", ":", "5", "}">>

\* Arrays with objects that hold braces of their own.
NestedLists ==
  {<<ObjNested>>, <<ObjNested, ObjId>>, <<ObjId, ObjNested>>, <<ObjDeep>>,
   <<ObjDeep, ObjNested>>, <<ObjNested, ObjOpen>>, <<ObjId, ObjFull>>}

\* Objects with a key that is not enclosed in double quotes.
BareKeySamples == {ObjUnquotedKey, ObjBareKeySpaced, ObjBareKeyLead, ObjBareKeys}

\* "id": "5"
PairQuotedId ==
  <<"\"", "i", "d", "\"", ":", " ", "\"", "5", "\"">>

\* The four text pairs of BasePairs.
TextPairs == <<PairDescription, PairStatus, PairCreatedAt, PairUpdatedAt>>

\* "description": "done"
PairDescriptionDone ==
  <<"\"", "d", "e", "s", "c", "r", "i", "p", "t", "i", "o", "n", "\"", ":",
    " ", "\"", "d", "o", "n", "e", "\"">>

\* The keys of the four text fields.
TextKeys == {KeyDescription, KeyStatus, KeyCreatedAt, KeyUpdatedAt}

\* "key": 7
BarePair(key) == Quoted(key) \o <<":", " ", "7">>

\* The quoted pairs put in front of a pair with a bare integer.
LeadPairs == {PairDescription, PairDescriptionDone, PairStatus, PairUpdatedAt}

\* pairs in the order p.
Permuted(pairs, p) == [i \in DOMAIN pairs |-> pairs[p[i]]]

\* What stands between two pairs: a comma with and without white space around
\* it, and what is no comma.
Separators ==
  {<<",">>, <<" ", ",", NL>>, <<",", " ">>, <<>>, <<" ">>, <<";">>, <<":">>,
   <<" ", "x", ",">>, <<"]">>}

\* What stands between the last pair and the closing brace.
Closings == {<<>>, <<" ", NL>>, <<",">>, <<";">>, <<" ", "x">>, <<"\"">>}

\* The object of the pairs first and second with sep between them.
SeparatedObject(first, sep, second) ==
  <<"{">> \o first \o sep \o second \o <<"}">>

\* The longest text given to escapeJsonString.
MaxText == 2

\* The characters of the texts given to escapeJsonString.
EscapeAlphabet == {"a", QUOTE, BSL, BS, FF, NL, CR, TAB}

\* The texts over EscapeAlphabet of at most n characters.
TextsUpTo(n) == UNION {[1..k -> EscapeAlphabet] : k \in 0..n}

\* {"id":n}
IdObject(n) == <<"{", QUOTE, "i", "d", QUOTE, ":">> \o IntToText(n) \o <<"}">>

\* The ids of the files the commands are tried on: none, distinct ids, an id
\* that occurs twice, and the largest int.
IdLists == {<<>>, <<1, 2>>, <<2, 1, 3, 1>>, <<INT_MAX>>}

\* Arguments given for <id>: 1, x, 1x, 99999999999.
ArgOne == <<"1">>

ArgWord == <<"x">>

ArgOneWord == <<"1", "x">>

ArgBig == <<"9", "9", "9", "9", "9", "9", "9", "9", "9", "9", "9">>

IdArgs == {ArgOne, ArgWord, ArgOneWord, ArgBig}

\* What follows "add" on the command line.
AddArgs == {<<d>> : d \in Descriptions} \cup {<<>>}

\* What follows "update".
UpdateArgs == {<<id, DescQuotes>> : id \in IdArgs} \cup {<<ArgOne>>}

\* What follows "delete", "mark-in-progress" and "mark-done".
IdOnlyArgs == {<<id>> : id \in IdArgs} \cup {<<>>}

\* What follows "list".
ListArgs == {<<>>, <<statusToString("DONE")>>, <<ArgWord>>,
             <<statusToString("DONE"), ArgWord>>}

\* The time points getCurrentTimestamp returns.
Clock == {[days |-> 19675, secs |-> 80000, sub |-> 250]}

-----------------------------------------------------------------------------
(* The program state *)

VARIABLES
  file,         \* tasks.json on disk: [exists, text, writable]
  pc,           \* where the program is (see the actions)
  content,      \* loadTasks: the trimmed file content
  startPos,     \* loadTasks: where the search for the next '{' starts
  objStartPos,  \* loadTasks: the '{' of the current object
  objEndPos,    \* loadTasks: the scan position of the inner loop
  braceLevel,   \* loadTasks: the depth counted by the inner loop
  task,         \* loadTasks: the Task of the last object handed to the parser
  tasks,        \* the task list: the local of loadTasks, then the list of main
  diag,         \* what the current call printed to std::cerr, in order
  appended,     \* history: the push_back calls of the current loadTasks call
  src,          \* history: how the initial file was built
  saved,        \* history: the list of the last saveTasks call that wrote the file
  loads,        \* history: [file, tasks, diag] of every finished loadTasks call
  run           \* history of the current run of main: its reads and writes of
                \* the file in order, the objects it handed to parseTaskObject,
                \* its command line, what it listed and the value it returned

vars ==
  <<file, pc, content, startPos, objStartPos, objEndPos, braceLevel, task, tasks,
    diag, appended, src, saved, loads, run>>

\* The return statements of loadTasks: lines 216 and 236, line 269, line 289.
LoadTerminal == {"ReturnedEmpty", "Aborted", "Done"}

\* A variant of EmptyTaskList in which the list outlives the call.
KeepTaskList(prev) == prev

\* A run of main that has done nothing yet.
NoRun ==
  [io |-> <<>>, handed |-> <<>>, cmd |-> "", args |-> <<>>, listed |-> <<>>,
   status |-> 0]

\* Line 211: the list loadTasks starts from; prev is the list of an earlier
\* call, which a local vector never sees.
EmptyTaskList(prev) == <<>>

LoadRecord(f, list, d) == [file |-> f, tasks |-> list, diag |-> d]

\* How an initial file was built: kind "array" from the objects objs, kind
\* "extra" from BasePairs with detail[2] put after detail[1] pairs, kind
\* "stamp" with the value detail[2] under the key detail[1], kind "text" and
\* "absent" from nothing.
Source(kind, objs, detail) == [kind |-> kind, objs |-> objs, detail |-> detail]

\* The state before main is entered with the file f.
InitLoad(f, s) ==
  /\ file = f
  /\ src = s
  /\ pc = "Start"
  /\ content = <<>>
  /\ startPos = 0
  /\ objStartPos = 0
  /\ objEndPos = 0
  /\ braceLevel = 0
  /\ task = DefaultTask
  /\ tasks = <<>>
  /\ diag = <<>>
  /\ appended = 0
  /\ saved = [done |-> FALSE, tasks |-> <<>>]
  /\ loads = <<>>
  /\ run = NoRun

Init ==
  \/ \E objs \in ObjectLists :
       InitLoad(FileOf(ArrayText(objs, <<>>)), Source("array", objs, <<>>))
  \/ \E obj \in SingleSamples \cup {ObjFull}, pad \in Paddings :
       InitLoad(FileOf(ArrayText(<<obj>>, pad)), Source("array", <<obj>>, <<>>))
  \/ \E k \in 0..Len(BasePairs), e \in UnknownPairs :
       InitLoad(FileOf(ArrayText(<<ObjectOfPairs(InsertAt(BasePairs, k, e))>>, <<>>)),
                Source("extra", <<>>, <<k, e>>))
  \/ \E key \in TimestampKeys, value \in TimestampSamples :
       InitLoad(FileOf(ArrayText(<<StampObject(key, value)>>, <<>>)),
                Source("stamp", <<>>, <<key, value>>))
  \/ \E value \in WideStamps :
       InitLoad(FileOf(ArrayText(<<StampObject(KeyCreatedAt, value), ObjId>>, <<>>)),
                Source("wide", <<>>, <<KeyCreatedAt, value>>))
  \/ \E text \in SpecialTexts : InitLoad(FileOf(text), Source("text", <<>>, <<>>))
  \/ InitLoad(AbsentFile, Source("absent", <<>>, <<>>))
  \/ InitLoad(ReadOnly(AbsentFile), Source("absent", <<>>, <<>>))
  \/ InitLoad(ReadOnly(FileOf(ArrayText(<<ObjId>>, <<>>))),
              Source("array", <<ObjId>>, <<>>))

\* The assignments of LoadOpen, o being the outcome of lines 212-242.
Opened(o) ==
  /\ pc' = o.pc
  /\ content' = o.content
  /\ diag' = o.diag
  /\ tasks' = EmptyTaskList(tasks)
  /\ loads' = IF o.pc = "ReturnedEmpty"
              THEN Append(loads, LoadRecord(file, EmptyTaskList(tasks), o.diag))
              ELSE loads

\* loadTasks, lines 209-242: open, read, trim, check the framing; either
\* return the empty list or enter the scan with startPos = 1.
LoadOpen ==
  /\ pc = "Start"
  /\ Opened(OpenResult(file))
  /\ startPos' = 1
  /\ objEndPos' = 0
  /\ braceLevel' = 0
  /\ appended' = 0
  /\ run' = [run EXCEPT !.io = Append(@, "read")]
  /\ UNCHANGED <<file, objStartPos, task, src, saved>>

\* The assignments of ScanForObject, found being the position of the next '{'.
Scanned(found) ==
  IF found = NPOS
  THEN /\ pc' = "Done"
       /\ loads' = Append(loads, LoadRecord(file, tasks, diag))
       /\ UNCHANGED objStartPos
  ELSE /\ pc' = "BalancingBraces"
       /\ objStartPos' = found
       /\ UNCHANGED loads

\* loadTasks, lines 244-249 and 284-289: look for the next '{'; without one
\* (or with startPos at the closing bracket) return the accumulated list.
ScanForObject ==
  /\ pc = "ScanningForObject"
  /\ Scanned(ScanResult(content, startPos))
  /\ UNCHANGED <<file, content, startPos, objEndPos, braceLevel, task, tasks, diag,
                 appended, src, saved, run>>

\* The assignments of BalanceBraces, r being the outcome of lines 251-282.
Balanced(r) ==
  /\ pc' = r.pc
  /\ objEndPos' = r.objEndPos
  /\ braceLevel' = r.braceLevel
  /\ tasks' = r.tasks
  /\ task' = r.task
  /\ diag' = diag \o r.diag
  /\ startPos' = r.startPos
  /\ appended' = IF r.accepted THEN appended + 1 ELSE appended
  /\ loads' = IF r.pc = "Aborted"
              THEN Append(loads, LoadRecord(file, r.tasks, diag \o r.diag))
              ELSE loads
  /\ run' = [run EXCEPT !.handed = @ \o r.handed]

\* loadTasks, lines 251-282: find the matching '}'; on unbalanced braces
\* clear the list and return, otherwise parse the object, append the task or
\* skip the object, and resume after its closing brace.
\* When from_time_t overflowed while the object was parsed (line 61, reached
\* from lines 155 and 157), the behaviour is undefined. A build that wraps
\* goes on with r. A build that traps signed overflow is killed inside that
\* call: the object was handed to the parser, the task holds what was
\* assigned before the call, and the list and startPos are as they were.
BuildOutcomes(r, list, resume) ==
  IF r.killedAt = <<>> THEN {r}
  ELSE {r, [r EXCEPT !.pc = "Killed", !.tasks = list, !.startPos = resume,
                     !.accepted = FALSE, !.task = r.killedAt[1].task,
                     !.diag = r.killedAt[1].diag \o <<"aborted">>]}

BalanceBraces ==
  /\ pc = "BalancingBraces"
  /\ \E r \in BuildOutcomes(BalanceResult(content, startPos, objStartPos, tasks, task),
                             tasks, startPos) : Balanced(r)
  /\ UNCHANGED <<file, content, objStartPos, src, saved>>

\* The assignments of a command that changed the list: list is the list
\* after the command and w the outcome of saveTasks on it.
Saved(list, w) ==
  /\ tasks' = list
  /\ file' = w.file
  /\ diag' = w.diag
  /\ saved' = IF file.writable THEN [done |-> TRUE, tasks |-> list] ELSE saved

\* A variant of AfterCommand in which main goes back to loading.
BackToLoad == "Start"

\* Where main is after a command: it has returned (lines 31, 44, ..., 127).
AfterCommand == "Exited"

\* The end of main for the command cmd with the arguments args, o being what
\* its branch left: the save of lines 123-125 when tasksModified is set, and
\* the return.
Finished(cmd, args, o) ==
  /\ IF o.tasksModified THEN Saved(o.tasks, saveTasks(file, o.tasks))
     ELSE /\ diag' = o.diag
          /\ UNCHANGED <<tasks, file, saved>>
  /\ run' = [run EXCEPT !.cmd = cmd, !.args = args, !.listed = o.listed,
                        !.status = o.status,
                        !.io = IF o.tasksModified THEN Append(@, "write") ELSE @]
  /\ pc' = AfterCommand
  /\ UNCHANGED <<content, startPos, objStartPos, objEndPos, braceLevel, task,
                 appended, src, loads>>

\* main without a command (lines 29-32).
NoCommand ==
  /\ pc \in LoadTerminal
  /\ Finished("", <<>>, Rejected(tasks, "no_command"))

\* main, command "add" (lines 40-48) and the save that follows (lines
\* 123-125): the loaded list gets a new task and is written to the file.
AddCommand ==
  /\ pc \in LoadTerminal
  /\ \E args \in AddArgs, now \in Clock, next \in generateNextId(tasks) :
       Finished("add", args, AddBranch(tasks, args, now, next))

\* main, command "update" (lines 49-60) and the save that follows when the
\* task was found.
UpdateCommand ==
  /\ pc \in LoadTerminal
  /\ \E args \in UpdateArgs, now \in Clock :
       Finished("update", args, UpdateBranch(tasks, args, now))

\* main, command "delete" (lines 61-70) and the save that follows when a task
\* was removed (lines 123-125).
DeleteCommand ==
  /\ pc \in LoadTerminal
  /\ \E args \in IdOnlyArgs : Finished("delete", args, DeleteBranch(tasks, args))

\* main, command "mark-in-progress" (lines 71-80) and the save that follows
\* when the task was found.
MarkInProgressCommand ==
  /\ pc \in LoadTerminal
  /\ \E args \in IdOnlyArgs, now \in Clock :
       Finished("mark-in-progress", args, MarkBranch(tasks, args, "IN_PROGRESS", now))

\* main, command "mark-done" (lines 81-90) and the save that follows when the
\* task was found.
MarkDoneCommand ==
  /\ pc \in LoadTerminal
  /\ \E args \in IdOnlyArgs, now \in Clock :
       Finished("mark-done", args, MarkBranch(tasks, args, "DONE", now))

\* main, command "list" (lines 91-105): nothing is saved.
ListCommand ==
  /\ pc \in LoadTerminal
  /\ \E args \in ListArgs : Finished("list", args, ListBranch(tasks, args))

\* main with a command it does not know (lines 106-110).
UnknownCommand ==
  /\ pc \in LoadTerminal
  /\ Finished("frob", <<>>, Rejected(tasks, "unknown_command"))

\* The program is started again: nothing but the file outlives a run.
NewInvocation ==
  /\ pc = "Exited"
  /\ Len(loads) < MaxRuns
  /\ pc' = "Start"
  /\ run' = NoRun
  /\ UNCHANGED <<file, content, startPos, objStartPos, objEndPos, braceLevel, task,
                 tasks, diag, appended, src, saved, loads>>

Next ==
  \/ LoadOpen
  \/ ScanForObject
  \/ BalanceBraces
  \/ NoCommand
  \/ AddCommand
  \/ UpdateCommand
  \/ DeleteCommand
  \/ MarkInProgressCommand
  \/ MarkDoneCommand
  \/ ListCommand
  \/ UnknownCommand
  \/ NewInvocation

Spec == Init /\ [][Next]_vars

\* The steps of a call of loadTasks that is under way.
Loading == {"Start", "ScanningForObject", "BalancingBraces"}

\* A step that takes a call of loadTasks from one of its places to another.
LoadStep == pc \in Loading /\ pc' \in (Loading \cup LoadTerminal) \ {pc}

\* The program is sequential and runs on: a call of loadTasks that is under
\* way takes its next step.
FairSpec == Spec /\ WF_pc(LoadStep)

\* The pair begins with the quoted key.
HasKey(pair, key) == SubSeq(pair, 1, Len(key) + 2) = Quoted(key)

\* A file holding the one object obj.
OneObject(obj) == FileOf(ArrayText(<<obj>>, <<>>))

\* The pairs of BasePairs whose places are in keep, in their order.
RECURSIVE PairsAt(_, _)
PairsAt(keep, i) ==
  IF i > Len(BasePairs) THEN <<>>
  ELSE (IF i \in keep THEN <<BasePairs[i]>> ELSE <<>>) \o PairsAt(keep, i + 1)

\* Objects that lack some or all of the five keys: kind "subset" holds the
\* pairs of the places detail.
SubsetInit ==
  \E keep \in SUBSET (DOMAIN BasePairs) :
    InitLoad(OneObject(ObjectOfPairs(PairsAt(keep, 1))), Source("subset", <<>>, keep))

\* Status values: todo, in-progress, done, the empty string, DONE, finished,
\* in progress and Done.
StatusTexts ==
  {statusToString("TODO"), statusToString("IN_PROGRESS"), statusToString("DONE"),
   <<>>, <<"D", "O", "N", "E">>, <<"f", "i", "n", "i", "s", "h", "e", "d">>,
   <<"i", "n", " ", "p", "r", "o", "g", "r", "e", "s", "s">>, <<"D", "o", "n", "e">>}

\* Objects with an id and a status: kind "status" holds the status value
\* detail.
StatusInit ==
  \E text \in StatusTexts :
    InitLoad(OneObject(ObjectOfPairs(<<PairId, QuotedPair(KeyStatus, text)>>)),
             Source("status", <<>>, text))

\* Text without braces: nothing, a comma, two commas, a word, a space,
\* a colon and a number, a quote.
Fillers ==
  {<<>>, <<",">>, <<",", ",">>, <<"x">>, <<" ">>, <<":", "1">>, <<QUOTE>>}

\* Files with text around the objects: kind "junk" holds ObjId and ObjFull
\* with detail[1] before, detail[2] between and detail[3] after them, inside
\* the brackets.
JunkInit ==
  \E before \in Fillers, between \in Fillers, after \in Fillers :
    InitLoad(FileOf(<<"[">> \o before \o ObjId \o between \o ObjFull \o after \o <<"]">>),
             Source("junk", <<ObjId, ObjFull>>, <<before, between, after>>))

\* Descriptions with brace characters: {x}, a}b, a{b and }{.
BraceTexts ==
  {<<"{", "x", "}">>, <<"a", "}", "b">>, <<"a", "{", "b">>, <<"}", "{">>}

\* The descriptions of the lists that are saved and loaded again.
BraceLists ==
  {<<d>> : d \in BraceTexts}
    \cup {<<<<"{", "x", "}">>, <<"p">>>>, <<<<"p">>, <<"a", "}", "b">>>>}

\* The list main builds from no task by one add for each description.
RECURSIVE AddedAll(_, _)
AddedAll(descriptions, now) ==
  IF descriptions = <<>> THEN <<>>
  ELSE addTask(AddedAll(SubSeq(descriptions, 1, Len(descriptions) - 1), now),
               descriptions[Len(descriptions)], now, Len(descriptions))

\* Files written by saveTasks: kind "saved" holds the text of the list detail.
SavedInit ==
  \E descriptions \in BraceLists, now \in Clock :
    InitLoad(FileOf(SerializeTasks(AddedAll(descriptions, now))),
             Source("saved", <<>>, AddedAll(descriptions, now)))

\* Files for the object parser: kind "perm" holds BasePairs in the order
\* detail, kind "escape" the description detail written by escapeJsonString,
\* kind "barekey" an object of BareKeySamples, kind "nested" the objects objs
\* of NestedLists, kind "quotedid" the text pairs
\* with "id": "5" after detail[1] of them, kind "bare" the pairs id, detail[1]
\* and the bare integer for the key detail[2], kind "sep" two pairs with
\* detail[1] between them, kind "closing" one pair with detail[1] before the
\* closing brace.
ParserInit ==
  \/ \E p \in Permutations(DOMAIN BasePairs) :
       InitLoad(OneObject(ObjectOfPairs(Permuted(BasePairs, p))),
                Source("perm", <<>>, p))
  \/ \E text \in TextsUpTo(MaxText) :
       InitLoad(OneObject(ObjectOfPairs(
                  <<QuotedPair(KeyDescription, escapeJsonString(text))>>)),
                Source("escape", <<>>, text))
  \/ \E obj \in BareKeySamples \cup {ObjNegativeId, ObjId} :
       InitLoad(OneObject(obj),
                Source(IF obj \in BareKeySamples THEN "barekey" ELSE "array",
                       <<obj>>, <<>>))
  \/ \E objs \in NestedLists, pad \in Paddings :
       InitLoad(FileOf(ArrayText(objs, pad)), Source("nested", objs, <<>>))
  \/ SavedInit
  \/ SubsetInit
  \/ StatusInit
  \/ JunkInit
  \/ \E k \in 0..Len(TextPairs) :
       InitLoad(OneObject(ObjectOfPairs(InsertAt(TextPairs, k, PairQuotedId))),
                Source("quotedid", <<>>, <<k>>))
  \/ \E lead \in LeadPairs, key \in TextKeys :
       /\ ~HasKey(lead, key)
       /\ InitLoad(OneObject(ObjectOfPairs(<<PairId, lead, BarePair(key)>>)),
                   Source("bare", <<>>, <<lead, key>>))
  \/ \E sep \in Separators :
       InitLoad(OneObject(SeparatedObject(PairId, sep, PairDescription)),
                Source("sep", <<>>, <<sep>>))
  \/ \E closing \in Closings :
       InitLoad(OneObject(SeparatedObject(PairId, closing, <<>>)),
                Source("closing", <<>>, <<closing>>))

\* Files for the commands: kind "ids" holds one object {"id":n} for each n of
\* detail.
CrudInit ==
  \E ids \in IdLists :
    InitLoad(FileOf(ArrayText([i \in DOMAIN ids |-> IdObject(ids[i])], <<>>)),
             Source("ids", <<>>, ids))

\* The runs of main on those files.
CrudSpec == CrudInit /\ [][Next]_vars

\* One call of loadTasks.
ParserNext ==
  \/ LoadOpen
  \/ ScanForObject
  \/ BalanceBraces

ParserSpec == ParserInit /\ [][ParserNext]_vars

-----------------------------------------------------------------------------
(* Claims about the persistence subsystem *)

\* The file is still the one the first run started from.
InitialFile == ~saved.done

\* The last finished call of loadTasks.
LastLoad == loads[Len(loads)]

HasDiag(d) == \E i \in DOMAIN diag : diag[i] = d

\* A task with both time points cut to the whole second.
Truncated(t) ==
  [t EXCEPT !.createdAt = from_time_t(to_time_t(t.createdAt)),
            !.updatedAt = from_time_t(to_time_t(t.updatedAt))]

TruncatedList(list) == [i \in DOMAIN list |-> Truncated(list[i])]

\* C1: round trip. Once saveTasks has written a list, the next loadTasks of
\* that text ends in Done with a list equal to the written one in id,
\* description, status and the timestamps cut to the second, in the same
\* order. The descriptions written include quotes, backslashes and control
\* characters.
C1_RoundTrip ==
  (pc \in LoadTerminal /\ saved.done)
    => (pc = "Done" /\ tasks = TruncatedList(saved.tasks))

\* No description of the list holds a control character.
NoControl(list) ==
  \A i \in DOMAIN list : \A j \in DOMAIN list[i].description :
    list[i].description[j] \notin {BS, FF, NL, CR, TAB}

\* The round trip of lists whose descriptions hold no control character.
RoundTripWithoutControl ==
  (pc \in LoadTerminal /\ saved.done /\ NoControl(saved.tasks))
    => (pc = "Done" /\ tasks = TruncatedList(saved.tasks))

\* Objects of the samples whose braces do not balance.
UnbalancedSamples == {ObjOpen}

HasUnbalanced(objs) == \E i \in DOMAIN objs : objs[i] \in UnbalancedSamples

\* C2: unbalanced braces abort the whole file. A load of an array holding an
\* object whose closing brace is missing ends in Aborted, and an aborted load
\* returns the empty list whatever it had appended before.
C2_UnbalancedAborts ==
  /\ (pc \in LoadTerminal /\ InitialFile /\ src.kind = "array" /\ HasUnbalanced(src.objs))
       => pc = "Aborted"
  /\ pc = "Aborted" => (tasks = <<>> /\ LastLoad.tasks = <<>> /\ braceLevel # 0)

\* An abort after an earlier object of the same text was appended.
C2_Witness == pc = "Aborted" /\ appended > 0 /\ tasks = <<>>

\* The objects of the samples that ObjectParser accepts.
AcceptedSamples == {ObjId, ObjFull, ObjEmpty, ObjNewline, ObjEscaped}

\* The task each accepted sample stands for.
SampleTask(obj) ==
  CASE obj = ObjId      -> [DefaultTask EXCEPT !.id = 1]
    [] obj = ObjFull    -> [DefaultTask EXCEPT !.id = 2, !.description = <<"b">>,
                                               !.status = "DONE"]
    [] obj = ObjEmpty   -> DefaultTask
    [] obj = ObjNewline -> [DefaultTask EXCEPT !.id = 6,
                                               !.description = <<"a", NL, "b", TAB, "c">>]
    [] obj = ObjEscaped -> [DefaultTask EXCEPT !.id = 8,
                                               !.description = <<"q", QUOTE, "b", BSL, "c">>]

RECURSIVE ExpectedTasks(_, _)
ExpectedTasks(objs, i) ==
  IF i > Len(objs) THEN <<>>
  ELSE (IF objs[i] \in AcceptedSamples THEN <<SampleTask(objs[i])>> ELSE <<>>)
         \o ExpectedTasks(objs, i + 1)

SkipCount == Cardinality({i \in DOMAIN diag : diag[i] = "skipping_object"})

RejectedCount(objs) == Cardinality({i \in DOMAIN objs : objs[i] \notin AcceptedSamples})

\* C3: per-record skip. The load of a well-framed array whose braces balance
\* ends in Done with exactly the tasks of the accepted objects, in file order;
\* every rejected object is reported once; and after each object the scan
\* resumes just past its closing brace.
C3_PerRecordSkip ==
  /\ (pc \in LoadTerminal /\ InitialFile /\ src.kind = "array" /\ ~HasUnbalanced(src.objs))
       => /\ pc = "Done"
          /\ tasks = ExpectedTasks(src.objs, 1)
          /\ SkipCount = RejectedCount(src.objs)
  /\ (pc = "ScanningForObject" /\ objEndPos > 0)
       => (At(content, objEndPos) = "}" /\ startPos = objEndPos + 1)

\* The array of the object with an unquoted key followed by a well-formed
\* object: only the second one is returned.
C3_Witness ==
  /\ pc = "Done"
  /\ InitialFile
  /\ src.kind = "array"
  /\ src.objs = <<ObjUnquotedKey, ObjFull>>
  /\ tasks = <<SampleTask(ObjFull)>>
  /\ HasDiag("skipping_object")

\* The file is absent, empty, or holds whitespace only.
EmptySource(f) == ~f.exists \/ \A i \in DOMAIN f.text : IsSpace(f.text[i])

\* C4: empty sources. A load of an absent file, of a zero-length file or of a
\* file of whitespace only returns the empty list.
C4_EmptySources ==
  (pc \in LoadTerminal /\ EmptySource(file))
    => (tasks = <<>> /\ LastLoad.tasks = <<>>)

\* A load that has returned from a file of whitespace only.
C4_Witness ==
  /\ pc \in LoadTerminal
  /\ file.exists
  /\ file.text # <<>>
  /\ EmptySource(file)
  /\ LastLoad.file = file

\* The trimmed text is shorter than 2, or does not start with '[' and end
\* with ']'.
IllFramed(text) ==
  \/ Len(TrimContent(text)) < 2
  \/ TrimContent(text)[1] # "["
  \/ TrimContent(text)[Len(TrimContent(text))] # "]"

\* C5: top-level framing. A load of an ill-framed text returns the empty list
\* straight from the framing test, without a step of the object scan; and the
\* file-level diagnostic is printed only for a text that is non-empty and
\* ill-framed.
C5_Framing ==
  /\ (pc \in LoadTerminal /\ file.exists /\ IllFramed(file.text))
       => (pc = "ReturnedEmpty" /\ tasks = <<>> /\ appended = 0 /\ objEndPos = 0)
  /\ (pc \in LoadTerminal /\ HasDiag("file_malformed"))
       => (file.exists /\ file.text # <<>> /\ IllFramed(file.text))
  /\ pc \in {"ScanningForObject", "BalancingBraces"} => ~IllFramed(file.text)

\* The load of the text {} has returned with the file-level diagnostic.
C5_Witness ==
  /\ pc = "ReturnedEmpty"
  /\ file.text = TextObject
  /\ tasks = <<>>
  /\ diag = <<"file_malformed">>


\* The file holds a timestamp on which from_time_t overflows.
BeyondRange == src.kind = "wide" /\ Overflows(mktime(get_time(src.detail[2]).tm))

C7_Deterministic ==
  \A i, j \in DOMAIN loads :
    (loads[i].file.exists = loads[j].file.exists /\ loads[i].file.text = loads[j].file.text)
      => (loads[i].tasks = loads[j].tasks /\ loads[i].diag = loads[j].diag)

\* Two runs have loaded the same text, which holds more than one task.
C7_Witness ==
  /\ Len(loads) >= 2
  /\ loads[1].file = loads[2].file
  /\ Len(loads[2].tasks) >= 2
  /\ loads[1].tasks = loads[2].tasks

\* The task of the object built from BasePairs.
BaseTask ==
  [id |-> 5, description |-> <<"d">>, status |-> "IN_PROGRESS",
   createdAt |-> from_time_t(time_t(1704164645)),
   updatedAt |-> from_time_t(time_t(1709251199))]

\* C8: unknown field tolerance. The object of the five recognized keys plus a
\* pair with an unknown key, at any position, loads as the task of the five
\* keys alone, with a diagnostic for the unknown key.
C8_UnknownFieldIgnored ==
  (pc \in LoadTerminal /\ InitialFile /\ src.kind = "extra")
    => (pc = "Done" /\ tasks = <<BaseTask>> /\ HasDiag("unknown_key"))

\* The same for unknown pairs whose integer fits an int.
UnknownFieldInRange ==
  (pc \in LoadTerminal /\ InitialFile /\ src.kind = "extra"
     /\ src.detail[2] # PairUnknownBigInt)
    => (pc = "Done" /\ tasks = <<BaseTask>> /\ HasDiag("unknown_key"))

\* The number written in the characters a..b (1-based) of v.
RECURSIVE NumberAt(_, _, _)
NumberAt(v, a, b) ==
  IF b < a THEN 0 ELSE NumberAt(v, a, b - 1) * 10 + DigitVal(v[b])

\* v has the shape YYYY-MM-DD HH:MM:SS and names a time of a calendar day.
MatchesPattern(v) ==
  /\ Len(v) = 19
  /\ \A i \in 1..19 :
       IF i \in {5, 8} THEN v[i] = "-"
       ELSE IF i = 11 THEN v[i] = " "
       ELSE IF i \in {14, 17} THEN v[i] = ":"
       ELSE IsDigit(v[i])
  /\ NumberAt(v, 6, 7) \in 1..12
  /\ NumberAt(v, 9, 10) \in 1..DaysInMonth(NumberAt(v, 1, 4), NumberAt(v, 6, 7))
  /\ NumberAt(v, 12, 13) \in 0..23
  /\ NumberAt(v, 15, 16) \in 0..59
  /\ NumberAt(v, 18, 19) \in 0..59

\* The task of an object built by StampObject whose timestamp fell back.
StampFallbackTask ==
  [id |-> 5, description |-> <<"d">>, status |-> "IN_PROGRESS",
   createdAt |-> from_time_t(time_t(0)), updatedAt |-> from_time_t(time_t(0))]

\* C9: timestamp fallback. An object whose createdAt or updatedAt value does
\* not match the pattern still loads as a task, with that field at the epoch
\* and the other fields decoded as usual.
C9_TimestampFallback ==
  (pc \in LoadTerminal /\ InitialFile /\ src.kind = "stamp"
     /\ ~MatchesPattern(src.detail[2]))
    => (pc = "Done" /\ tasks = <<StampFallbackTask>>)

\* Whatever the timestamp value, the object still yields one task and its
\* other fields are decoded as usual.
StampObjectKept ==
  (pc \in LoadTerminal /\ InitialFile /\ src.kind = "stamp")
    => /\ pc = "Done"
       /\ Len(tasks) = 1
       /\ tasks[1].id = 5
       /\ tasks[1].description = <<"d">>
       /\ tasks[1].status = "IN_PROGRESS"


\* The position after lit when text holds lit at position pos, else -1.
Expect(text, pos, lit) ==
  IF pos >= 0 /\ pos + Len(lit) <= Len(text)
              /\ SubSeq(text, pos + 1, pos + Len(lit)) = lit
  THEN pos + Len(lit)
  ELSE -1

\* The position after the tokens from the i-th on, each of which may have
\* whitespace before it; -1 when the text holds something else.
RECURSIVE ExpectTokens(_, _, _, _)
ExpectTokens(text, pos, tokens, i) ==
  IF pos < 0 \/ i > Len(tokens) THEN pos
  ELSE ExpectTokens(text, Expect(text, SkipWs(text, pos), tokens[i]), tokens, i + 1)

\* The tokens of one object: the five keys in their order, the id bare and
\* the other four values between double quotes.
ObjectTokens(t) ==
  << <<"{">>,
     Quoted(KeyId), <<":">>, IntToText(t.id), <<",">>,
     Quoted(KeyDescription), <<":">>, Quoted(escapeJsonString(t.description)), <<",">>,
     Quoted(KeyStatus), <<":">>, Quoted(statusToString(t.status)), <<",">>,
     Quoted(KeyCreatedAt), <<":">>, Quoted(formatTimestamp(t.createdAt)), <<",">>,
     Quoted(KeyUpdatedAt), <<":">>, Quoted(formatTimestamp(t.updatedAt)),
     <<"}">> >>

\* The position after the objects of list from the i-th on, with one comma
\* before each object but the first.
RECURSIVE ExpectObjects(_, _, _, _)
ExpectObjects(text, pos, list, i) ==
  IF pos < 0 \/ i > Len(list) THEN pos
  ELSE ExpectObjects(text,
                     ExpectTokens(text, pos,
                                  (IF i > 1 THEN << <<",">> >> ELSE <<>>)
                                    \o ObjectTokens(list[i]), 1),
                     list, i + 1)

\* The text was matched up to pos and holds only whitespace from there on.
OnlySpaceFrom(text, pos) == pos >= 0 /\ SkipWs(text, pos) = Len(text)

\* The text is '[' at its very start, the objects of list in order with a
\* comma between any two, and ']', with nothing but whitespace after it.
WellLaidOut(text, list) ==
  OnlySpaceFrom(text,
                ExpectTokens(text, ExpectObjects(text, Expect(text, 0, <<"[">>), list, 1),
                             << <<"]">> >>, 1))

\* C10: serializer layout. The text saveTasks writes for a list of n tasks
\* begins with '[', holds the n objects in list order with the keys id,
\* description, status, createdAt, updatedAt, the id a bare decimal integer
\* and the other values quoted, one comma between any two objects and none
\* after the last, and closes with ']' followed by the end of the line.
C10_Layout ==
  saved.done
    => /\ WellLaidOut(file.text, saved.tasks)
       /\ Len(file.text) >= 3
       /\ SubSeq(file.text, Len(file.text) - 1, Len(file.text)) = <<"]", NL>>

\* The layout as the claim words it: the last character written is ']'.
C10_EndsWithBracket ==
  saved.done
    => /\ WellLaidOut(file.text, saved.tasks)
       /\ file.text[Len(file.text)] = "]"

\* A list of two tasks has been written, with its one comma.
C10_Witness ==
  /\ saved.done
  /\ Len(saved.tasks) = 2
  /\ file.text = SerializeTasks(saved.tasks)
  /\ pc = "Exited"

\* The empty list has been written.
EmptyListWritten == saved.done /\ saved.tasks = <<>> /\ pc = "Exited"

\* The current run of main called saveTasks.
SaveCalled == \E i \in DOMAIN run.io : run.io[i] = "write"

\* The list the command of the run r makes of the loaded list (for an add,
\* when the next id is in range).
ListAfter(r, list) ==
  LET now == CHOOSE t \in Clock : TRUE
      next == CHOOSE n \in generateNextId(list) : ~n.trap
  IN
  CASE r.cmd = "add"              -> AddBranch(list, r.args, now, next).tasks
    [] r.cmd = "update"           -> UpdateBranch(list, r.args, now).tasks
    [] r.cmd = "delete"           -> DeleteBranch(list, r.args).tasks
    [] r.cmd = "mark-in-progress" -> MarkBranch(list, r.args, "IN_PROGRESS", now).tasks
    [] r.cmd = "mark-done"        -> MarkBranch(list, r.args, "DONE", now).tasks
    [] OTHER                      -> list

\* C11: when the file cannot be opened for writing, a run that calls saveTasks
\* reports the error and nothing else, the file is exactly what the run
\* loaded, and the list in memory is still the list the command produced.
C11_WriteFailure ==
  (pc = "Exited" /\ SaveCalled /\ ~file.writable) =>
    /\ diag = <<"save_open_failed">>
    /\ file = LastLoad.file
    /\ tasks = ListAfter(run, LastLoad.tasks)

\* A task was added to the list of a file that exists and cannot be written.
C11_Witness ==
  /\ pc = "Exited"
  /\ run.cmd = "add"
  /\ SaveCalled
  /\ ~file.writable
  /\ file.exists
  /\ Len(tasks) = 2

\* C12: in every run of main the file is read exactly once, before the command
\* is handled, and written at most once, after it: the reads and writes of a
\* run are, in order, one read and then at most one write.
C12_ReadOnceWriteOnce ==
  /\ pc = "Start" => run.io = <<>>
  /\ pc \in (Loading \ {"Start"}) \cup LoadTerminal => run.io = <<"read">>
  /\ pc = "Exited" => run.io \in {<<"read">>, <<"read", "write">>}

\* The second run on a file has read it and written it.
C12_Witness ==
  /\ pc = "Exited"
  /\ Len(loads) = 2
  /\ run.io = <<"read", "write">>

\* The commands that take an id, with the number of arguments each requires.
IdCommandArity ==
  [c \in {"update", "delete", "mark-in-progress", "mark-done"} |->
     IF c = "update" THEN 2 ELSE 1]

\* The argument is a decimal number: digits and nothing else.
IsNumber(arg) == arg # <<>> /\ \A i \in DOMAIN arg : IsDigit(arg[i])

\* Some task of the list has the number arg as its id.
IdFound(arg, list) == \E i \in DOMAIN list : IntToText(list[i].id) = arg

\* The command line of the run r mutates the list: add with its description,
\* or a command on the numeric id of a task of the list.
Mutates(r, list) ==
  \/ r.cmd = "add" /\ Len(r.args) = 1
  \/ /\ r.cmd \in DOMAIN IdCommandArity
     /\ Len(r.args) = IdCommandArity[r.cmd]
     /\ IsNumber(r.args[1])
     /\ IdFound(r.args[1], list)

\* C13: a run calls saveTasks if and only if its command mutated the list (add
\* always, update, delete, mark-in-progress and mark-done when the id was
\* found); a list command, an unknown command, a wrong argument count, an id
\* that is not a number and an id that is not found leave the file unchanged.
C13_SaveIffMutated ==
  pc = "Exited" =>
    /\ SaveCalled <=> Mutates(run, LastLoad.tasks)
    /\ ~Mutates(run, LastLoad.tasks) => file = LastLoad.file

\* The id of the run r as std::stoi reads it belongs to a task of the list.
StoiFound(r, list) ==
  /\ r.cmd \in DOMAIN IdCommandArity
  /\ Len(r.args) = IdCommandArity[r.cmd]
  /\ stoi(r.args[1]).ok
  /\ \E i \in DOMAIN list : list[i].id = stoi(r.args[1]).val

\* What holds in place of C13: the save follows the id std::stoi read, which
\* for an argument such as 1x is the number in front of the first character
\* that is not a digit.
SaveFollowsStoi ==
  pc = "Exited" =>
    /\ SaveCalled <=> ((run.cmd = "add" /\ Len(run.args) = 1)
                         \/ StoiFound(run, LastLoad.tasks))
    /\ ~SaveCalled => file = LastLoad.file

\* The command "delete 1x" removed task 1 and the list was saved.
SavedOnWordId ==
  /\ pc = "Exited"
  /\ run.cmd = "delete"
  /\ run.args = <<ArgOneWord>>
  /\ SaveCalled
  /\ file # LastLoad.file

\* C14: key order independence. The object of the five recognized pairs, in
\* any of the 120 orders, loads as the one task of the five values, without a
\* diagnostic.
C14_KeyOrder ==
  (src.kind = "perm" /\ pc \in LoadTerminal)
    => /\ pc = "Done"
       /\ tasks = <<BaseTask>>
       /\ diag = <<>>

\* The object with the five pairs in the reverse of the order saveTasks
\* writes has been loaded.
C14_Witness ==
  /\ src.kind = "perm"
  /\ src.detail = <<5, 4, 3, 2, 1>>
  /\ pc = "Done"
  /\ appended = 1

\* C15: every task of a list returned by loadTasks has a non-negative id.
C15_NonNegativeId ==
  pc \in LoadTerminal => \A i \in DOMAIN tasks : tasks[i].id >= 0

\* The file [{"id":-5}] was loaded as one task with the id -5.
NegativeIdLoaded ==
  /\ pc = "Done"
  /\ src.objs = <<ObjNegativeId>>
  /\ Len(tasks) = 1
  /\ tasks[1].id = 0 - 5

\* The text holds none of backspace, form-feed, newline, carriage return, tab.
NoControlIn(text) == \A i \in DOMAIN text : text[i] \notin {BS, FF, NL, CR, TAB}

\* The list of the one task with the description text and nothing else.
DescribedOnly(text) == <<[DefaultTask EXCEPT !.description = text]>>

\* C16: decode is the inverse of encode. For every text over plain characters,
\* double quote, backslash, backspace, form-feed, newline, carriage return and
\* tab, the object whose description is the quoted escapeJsonString of the
\* text is read back with exactly that text as its description.
C16_DecodeInvertsEncode ==
  (src.kind = "escape" /\ pc \in LoadTerminal) => tasks = DescribedOnly(src.detail)

\* What holds in place of C16: texts of plain characters, double quotes and
\* backslashes are read back as they were.
DecodeInvertsWithoutControl ==
  (src.kind = "escape" /\ pc \in LoadTerminal /\ NoControlIn(src.detail))
    => tasks = DescribedOnly(src.detail)

\* The description a, newline was read back as the two letters a, n.
NewlineReadAsLetter ==
  /\ src.kind = "escape"
  /\ src.detail = <<"a", NL>>
  /\ pc = "Done"
  /\ tasks = DescribedOnly(<<"a", "n">>)

\* C17: an object with a key that is not enclosed in double quotes, whatever
\* white space surrounds the key, fails as a whole and yields no task.
C17_UnquotedKeyFails ==
  (src.kind = "barekey" /\ pc \in LoadTerminal)
    => /\ tasks = <<>>
       /\ HasDiag("skipping_object")

\* What holds in place of C17: the object fails when its unquoted key is
\* directly followed by the colon.
UnquotedKeyBeforeColonFails ==
  (src.kind = "barekey" /\ src.objs = <<ObjUnquotedKey>> /\ pc \in LoadTerminal)
    => tasks = <<>>

\* The object {id : 1} was loaded as the task with the id 1.
BareKeyLoaded ==
  /\ src.objs = <<ObjBareKeySpaced>>
  /\ pc = "Done"
  /\ tasks = <<[DefaultTask EXCEPT !.id = 1]>>

\* C18: the id must be a bare integer. The object of the four text pairs and
\* the pair "id": "5", wherever that pair sits, fails on the id and yields no
\* task.
C18_QuotedIdFails ==
  (src.kind = "quotedid" /\ pc \in LoadTerminal)
    => /\ pc = "Done"
       /\ tasks = <<>>
       /\ HasDiag("id_not_numeric")
       /\ HasDiag("skipping_object")

\* The object with "id": "5" as its last pair was read and skipped.
C18_Witness ==
  /\ src.kind = "quotedid"
  /\ src.detail = <<Len(TextPairs)>>
  /\ pc = "Done"
  /\ appended = 0
  /\ HasDiag("id_not_numeric")

\* The field of the task t that the key names.
TextField(t, key) ==
  CASE key = KeyDescription -> t.description
    [] key = KeyStatus      -> t.status
    [] key = KeyCreatedAt   -> t.createdAt
    [] key = KeyUpdatedAt   -> t.updatedAt

\* C19: the bare-integer form is for id only. An object giving a bare integer
\* for a text field, after a quoted pair for another field, yields no task
\* whose text field was filled from that other pair: if a task is produced,
\* the field is what an empty Task holds.
C19_BareTextField ==
  (src.kind = "bare" /\ pc \in LoadTerminal)
    => \A i \in DOMAIN tasks :
         TextField(tasks[i], src.detail[2]) = TextField(DefaultTask, src.detail[2])

\* The object {"id": 5, "status": "in-progress", "description": 7} was loaded
\* as a task whose description is the value of the status pair.
BareFieldFilled ==
  /\ src.kind = "bare"
  /\ src.detail = <<PairStatus, KeyDescription>>
  /\ pc = "Done"
  /\ Len(tasks) = 1
  /\ tasks[1].description = statusToString("IN_PROGRESS")

\* The first character of the text that is not white space, EOF without one.
FirstSolid(text) == Peek(text, SkipWs(text, 0))

\* C20: after a pair the parser accepts exactly a comma or the closing brace.
\* Two pairs load as one task when a comma (with any white space around it)
\* stands between them and fail on the separator otherwise; one pair loads
\* when only white space stands before the closing brace, or a comma, and
\* fails on any other character.
C20_Separator ==
  /\ (src.kind = "sep" /\ pc \in LoadTerminal) =>
       IF FirstSolid(src.detail[1] \o PairDescription) = ","
       THEN tasks = <<[DefaultTask EXCEPT !.id = 5, !.description = <<"d">>]>>
              /\ diag = <<>>
       ELSE tasks = <<>> /\ HasDiag("expected_comma_or_brace")
  /\ (src.kind = "closing" /\ pc \in LoadTerminal) =>
       IF FirstSolid(src.detail[1] \o <<"}">>) \in {",", "}"}
       THEN tasks = <<[DefaultTask EXCEPT !.id = 5]>> /\ diag = <<>>
       ELSE tasks = <<>> /\ HasDiag("expected_comma_or_brace")

\* Two pairs with a semicolon between them were read, and the object was
\* skipped on the separator.
C20_Witness ==
  /\ src.kind = "sep"
  /\ src.detail = <<<<";">>>>
  /\ pc = "Done"
  /\ tasks = <<>>
  /\ HasDiag("expected_comma_or_brace")

\* The depth after position k of a scan that starts at s: one up for every
\* '{' and one down for every '}' from s to k.
DepthAt(text, s, k) ==
  Cardinality({i \in s..k : At(text, i) = "{"})
    - Cardinality({i \in s..k : At(text, i) = "}"})

\* The positions before the last character where the depth of a scan from s
\* is zero.
ZeroDepths(text, s) == {e \in s..(Len(text) - 2) : DepthAt(text, s, e) = 0}

Least(S) == CHOOSE e \in S : \A f \in S : e <= f

\* The '{' positions from pos on, before the last character.
OpenBraces(text, pos) == {i \in pos..(Len(text) - 2) : At(text, i) = "{"}

\* The candidate objects of the text from pos on: each runs from the next '{'
\* to the first '}' that takes the depth back to zero, and the next is looked
\* for after that '}'; a '{' that is never closed ends the list.
RECURSIVE Candidates(_, _)
Candidates(text, pos) ==
  IF OpenBraces(text, pos) = {} THEN <<>>
  ELSE LET s == Least(OpenBraces(text, pos)) IN
         IF ZeroDepths(text, s) = {} THEN <<>>
         ELSE LET e == Least(ZeroDepths(text, s)) IN
                <<Substr(text, s, e - s + 1)>> \o Candidates(text, e + 1)

IsPrefix(a, b) == Len(a) <= Len(b) /\ a = SubSeq(b, 1, Len(a))

\* C21: brace-depth scanning. The objects handed to parseTaskObject are, in
\* order, the spans from a '{' to the '}' at which the depth first returns to
\* zero; the scan resumes just after that '}', so a finished load has handed
\* over exactly the outermost spans and none of the braces nested in them.
C21_BraceDepthSpans ==
  /\ IsPrefix(run.handed, Candidates(content, 1))
  /\ pc = "Done" => run.handed = Candidates(content, 1)
  /\ (pc = "ScanningForObject" /\ run.handed # <<>>) =>
       /\ At(content, objStartPos) = "{"
       /\ At(content, objEndPos) = "}"
       /\ run.handed[Len(run.handed)]
            = Substr(content, objStartPos, objEndPos - objStartPos + 1)
       /\ startPos = objEndPos + 1

\* A file of an object with a nested object, followed by a second object, was
\* loaded: two objects were handed over, the nested one as part of the first.
C21_Witness ==
  /\ src.kind = "nested"
  /\ src.objs = <<ObjNested, ObjId>>
  /\ pc = "Done"
  /\ run.handed = <<ObjNested, ObjId>>

\* The load ended in a file-level failure: the framing test failed on a text
\* that is not empty, or the braces did not balance.
FileLevelFailure(load) ==
  \E i \in DOMAIN load.diag : load.diag[i] \in {"file_malformed", "mismatched_braces"}

\* The task an add gives an empty list.
FirstTask(description, now) ==
  [id |-> 1, description |-> description, status |-> "TODO",
   createdAt |-> now, updatedAt |-> now]

\* C22: after a load that ended in a file-level failure on a non-empty file,
\* main goes on as with no tasks: an add with its description saves, the list
\* is the new task alone with the id 1, and the file is the text saveTasks
\* writes for that list, with nothing of the former content.
C22_AddAfterFailedLoad ==
  (/\ pc = "Exited"
   /\ run.cmd = "add"
   /\ Len(run.args) = 1
   /\ file.writable
   /\ FileLevelFailure(LastLoad)
   /\ LastLoad.file.text # <<>>)
    => /\ SaveCalled
       /\ \E now \in Clock : tasks = <<FirstTask(run.args[1], now)>>
       /\ file.text = SerializeTasks(tasks)
       /\ Len(loadTasks(file).tasks) = 1
       /\ loadTasks(file).tasks[1].id = 1

\* A task was added after the load of a file with unbalanced braces, which
\* had appended an object before it aborted.
C22_Witness ==
  /\ pc = "Exited"
  /\ run.cmd = "add"
  /\ SaveCalled
  /\ Len(LastLoad.file.text) > 2
  /\ \E i \in DOMAIN LastLoad.diag : LastLoad.diag[i] = "mismatched_braces"
  /\ src.objs = <<ObjId, ObjOpen>>
  /\ Len(tasks) = 1

\* The ids of the list are pairwise distinct.
DistinctIds(list) ==
  \A i, j \in DOMAIN list : list[i].id = list[j].id => i = j

DistinctNumbers(ids) == \A i, j \in DOMAIN ids : ids[i] = ids[j] => i = j

\* C23: id uniqueness. Starting from a file whose ids are pairwise distinct
\* (or from no task), the ids of the list stay pairwise distinct through any
\* sequence of add, update, delete and mark commands.
C23_UniqueIds ==
  (src.kind = "ids" /\ DistinctNumbers(src.detail)) => DistinctIds(tasks)

\* What holds in place of C23: the ids stay distinct as long as the list the
\* run started from did not hold the largest int.
UniqueIdsBelowMax ==
  (/\ src.kind = "ids"
   /\ DistinctNumbers(src.detail)
   /\ \A i \in DOMAIN src.detail : src.detail[i] < INT_MAX)
    => DistinctIds(tasks)

\* Two adds on the file [{"id":2147483647}] have left two tasks with the
\* least int as their id.
WrappedIdTwice ==
  /\ src.detail = <<INT_MAX>>
  /\ pc = "Exited"
  /\ Len(tasks) = 3
  /\ tasks[2].id = INT_MIN
  /\ tasks[3].id = INT_MIN

\* The run is an add with its description.
IsAdd(r) == r.cmd = "add" /\ Len(r.args) = 1

\* C24: generateNextId returns 1 for the empty list and, for every other list,
\* a value greater than every id of the list, the largest int included: an
\* add gives the new task, the last of the list, such an id.
C24_NextIdGreater ==
  (pc = "Exited" /\ IsAdd(run)) =>
    /\ Len(tasks) = Len(LastLoad.tasks) + 1
    /\ LastLoad.tasks = <<>> => tasks[Len(tasks)].id = 1
    /\ \A i \in DOMAIN LastLoad.tasks : tasks[Len(tasks)].id > LastLoad.tasks[i].id

\* What holds in place of C24: the same for every list without the largest
\* int.
NextIdGreaterBelowMax ==
  (pc = "Exited" /\ IsAdd(run)
     /\ \A i \in DOMAIN LastLoad.tasks : LastLoad.tasks[i].id < INT_MAX) =>
    /\ Len(tasks) = Len(LastLoad.tasks) + 1
    /\ LastLoad.tasks = <<>> => tasks[Len(tasks)].id = 1
    /\ \A i \in DOMAIN LastLoad.tasks : tasks[Len(tasks)].id > LastLoad.tasks[i].id

\* An add on the list of the one id 2147483647 gave the new task the least
\* int.
WrappedId ==
  /\ pc = "Exited"
  /\ IsAdd(run)
  /\ Len(LastLoad.tasks) = 1
  /\ LastLoad.tasks[1].id = INT_MAX
  /\ Len(tasks) = 2
  /\ tasks[2].id = INT_MIN

\* The same add in a build that traps on overflow: the process was aborted
\* and nothing was saved.
TrappedAdd ==
  /\ pc = "Exited"
  /\ IsAdd(run)
  /\ run.status = 134
  /\ ~SaveCalled
  /\ file = LastLoad.file

\* The run is the command cmd with n arguments, the first an id std::stoi
\* reads.
IsIdCommand(r, cmd, n) == r.cmd = cmd /\ Len(r.args) = n /\ stoi(r.args[1]).ok

\* The list without its tasks of the id, the others in their order.
RECURSIVE Without(_, _)
Without(list, id) ==
  IF list = <<>> THEN <<>>
  ELSE (IF Head(list).id = id THEN <<>> ELSE <<Head(list)>>) \o Without(Tail(list), id)

HasId(list, id) == \E i \in DOMAIN list : list[i].id = id

\* C25: deleteTask returns true exactly when a task with the id was in the
\* list (main then saves); it removes every task with the id and keeps the
\* others unchanged in their order; when it returns false the list is as it
\* was and the task is reported as not found.
C25_DeleteFrame ==
  (pc = "Exited" /\ IsIdCommand(run, "delete", 1)) =>
    /\ SaveCalled <=> HasId(LastLoad.tasks, stoi(run.args[1]).val)
    /\ tasks = Without(LastLoad.tasks, stoi(run.args[1]).val)
    /\ ~SaveCalled => (tasks = LastLoad.tasks /\ diag = <<"task_not_found">>)

\* The two tasks with the id 1 were deleted from the list of the ids 2, 1, 3,
\* 1, and the tasks 2 and 3 are left in that order.
C25_Witness ==
  /\ pc = "Exited"
  /\ IsIdCommand(run, "delete", 1)
  /\ Len(LastLoad.tasks) = 4
  /\ Len(tasks) = 2
  /\ tasks[1].id = 2
  /\ tasks[2].id = 3

\* The place of the first task with the id.
FirstWith(list, id) ==
  CHOOSE k \in DOMAIN list : list[k].id = id /\ \A j \in 1..(k - 1) : list[j].id # id

\* after is before with the task at place k changed by the command of the
\* run r and updated at some time of the clock, and nothing else.
ChangedAt(before, after, k, r) ==
  /\ Len(after) = Len(before)
  /\ \A i \in DOMAIN before : i # k => after[i] = before[i]
  /\ after[k].id = before[k].id
  /\ after[k].createdAt = before[k].createdAt
  /\ after[k].updatedAt \in Clock
  /\ IF r.cmd = "update"
     THEN after[k].description = r.args[2] /\ after[k].status = before[k].status
     ELSE /\ after[k].description = before[k].description
          /\ after[k].status = (IF r.cmd = "mark-done" THEN "DONE" ELSE "IN_PROGRESS")

\* The run is an update or a mark command with an id std::stoi reads.
IsChange(r) ==
  \/ IsIdCommand(r, "update", 2)
  \/ IsIdCommand(r, "mark-in-progress", 1)
  \/ IsIdCommand(r, "mark-done", 1)

\* C26: updateTask and markTaskStatus return true exactly when a task with
\* the id exists (main then saves); they change the description, respectively
\* the status, and updatedAt of the first task with the id and nothing else;
\* when they return false the list is as it was.
C26_UpdateFrame ==
  (pc = "Exited" /\ IsChange(run)) =>
    /\ SaveCalled <=> HasId(LastLoad.tasks, stoi(run.args[1]).val)
    /\ SaveCalled =>
         ChangedAt(LastLoad.tasks, tasks,
                   FirstWith(LastLoad.tasks, stoi(run.args[1]).val), run)
    /\ ~SaveCalled => (tasks = LastLoad.tasks /\ diag = <<"task_not_found">>)

\* The first of the two tasks with the id 1 was marked done in the list of
\* the ids 2, 1, 3, 1; the second is as it was.
C26_Witness ==
  /\ pc = "Exited"
  /\ IsIdCommand(run, "mark-done", 1)
  /\ Len(tasks) = 4
  /\ tasks[2].status = "DONE"
  /\ tasks[4].status = "TODO"
  /\ tasks[4].id = 1

\* C27: braces in text values are data. Loading the text saveTasks wrote for a
\* list whose descriptions hold brace characters, balanced or not, ends in
\* Done with a list equal to the written one.
C27_BracesInText ==
  (src.kind = "saved" /\ pc \in LoadTerminal)
    => (pc = "Done" /\ tasks = TruncatedList(src.detail))

\* The braces of the text nest: every closing brace has its opening brace
\* before it and none is left open.
BracesNest(text) ==
  /\ DepthAt(text, 0, Len(text) - 1) = 0
  /\ \A k \in 0..(Len(text) - 1) : DepthAt(text, 0, k) >= 0

\* What holds in place of C27: the list is read back when the braces of every
\* description nest.
NestedBracesInText ==
  (/\ src.kind = "saved"
   /\ pc \in LoadTerminal
   /\ \A i \in DOMAIN src.detail : BracesNest(src.detail[i].description))
    => (pc = "Done" /\ tasks = TruncatedList(src.detail))

\* The description {x} was read back.
NestedBracesRead ==
  /\ src.kind = "saved"
  /\ pc = "Done"
  /\ Len(tasks) = 1
  /\ tasks[1].description = <<"{", "x", "}">>

\* The list of the one description a}b was saved, and loading it returned no
\* task: the object was cut at the brace of the description and skipped.
ClosingBraceCutsObject ==
  /\ src.kind = "saved"
  /\ Len(src.detail) = 1
  /\ src.detail[1].description = <<"a", "}", "b">>
  /\ pc = "Done"
  /\ tasks = <<>>
  /\ HasDiag("skipping_object")

\* The list of the one description a{b was saved, and loading it ended with
\* mismatched braces and no task.
OpeningBraceAbortsLoad ==
  /\ src.kind = "saved"
  /\ Len(src.detail) = 1
  /\ src.detail[1].description = <<"a", "{", "b">>
  /\ pc \in LoadTerminal
  /\ tasks = <<>>
  /\ HasDiag("mismatched_braces")

\* The field of the task that the pair at place i of BasePairs sets.
FieldAt(t, i) ==
  CASE i = 1 -> t.id
    [] i = 2 -> t.description
    [] i = 3 -> t.status
    [] i = 4 -> t.createdAt
    [] i = 5 -> t.updatedAt

\* The values of a default-constructed task: id 0, no description, Todo and
\* the epoch for both timestamps.
Defaults ==
  [id |-> 0, description |-> <<>>, status |-> "TODO",
   createdAt |-> [days |-> 0, secs |-> 0, sub |-> 0],
   updatedAt |-> [days |-> 0, secs |-> 0, sub |-> 0]]

\* C28: missing keys are not an error. An object that lacks some or all of
\* the five recognized keys, the empty object included, is accepted and
\* yields one task: the fields of the keys present hold their values, the
\* others the default-constructed values, and no record is skipped.
C28_MissingKeys ==
  (src.kind = "subset" /\ pc \in LoadTerminal) =>
    /\ pc = "Done"
    /\ diag = <<>>
    /\ Len(tasks) = 1
    /\ \A i \in DOMAIN BasePairs :
         FieldAt(tasks[1], i) =
           (IF i \in src.detail THEN FieldAt(BaseTask, i) ELSE FieldAt(Defaults, i))

\* The empty object was loaded as one task with the default values.
C28_Witness ==
  /\ src.kind = "subset"
  /\ src.detail = {}
  /\ file.text = <<"[", "{", "}", "]">>
  /\ pc = "Done"
  /\ Len(tasks) = 1
  /\ tasks[1].id = 0
  /\ tasks[1].status = "TODO"

\* The objects of the file, each loaded as its task.
ReadAsWritten ==
  /\ pc = "Done"
  /\ tasks = [i \in DOMAIN src.objs |-> SampleTask(src.objs[i])]

\* C29: text outside the object spans is not validated. Whatever brace-free
\* text stands before the first object, between the two objects and after the
\* last one inside the brackets, the load returns the same list, the tasks
\* of the two objects; files that differ only in that text load to equal
\* lists.
C29_TextOutsideObjects ==
  (src.kind = "junk" /\ pc \in LoadTerminal) => ReadAsWritten

\* The two objects were loaded from the file [x{"id":1}{..}:1], with a word
\* before, no comma between and a pair of a colon and a number after them.
C29_Witness ==
  /\ src.kind = "junk"
  /\ src.detail = <<<<"x">>, <<>>, <<":", "1">>>>
  /\ pc = "Done"
  /\ Len(tasks) = 2
  /\ tasks[1].id = 1
  /\ tasks[2].id = 2

\* C30: an unrecognized status string does not fail the record. A quoted
\* status other than in-progress and done decodes to Todo, the object is
\* accepted, and stringToStatus(statusToString(s)) is s for each of the three
\* statuses.
C30_StatusDecoding ==
  /\ (src.kind = "status" /\ pc \in LoadTerminal) =>
       /\ pc = "Done"
       /\ diag = <<>>
       /\ Len(tasks) = 1
       /\ tasks[1].id = 5
       /\ tasks[1].status =
            (IF src.detail = <<"i", "n", "-", "p", "r", "o", "g", "r", "e", "s", "s">>
             THEN "IN_PROGRESS"
             ELSE IF src.detail = <<"d", "o", "n", "e">> THEN "DONE"
             ELSE "TODO")
  /\ \A s \in {"TODO", "IN_PROGRESS", "DONE"} : stringToStatus(statusToString(s)) = s

\* The status finished was loaded as Todo.
C30_Witness ==
  /\ src.kind = "status"
  /\ src.detail = <<"f", "i", "n", "i", "s", "h", "e", "d">>
  /\ pc = "Done"
  /\ Len(tasks) = 1
  /\ tasks[1].status = "TODO"

\* A file whose first createdAt is beyond the range of from_time_t, in a
\* build that wraps: the load has returned both tasks, the first with a
\* createdAt of the year 1678 for the text 2263-01-01 00:00:00.
WrappedStampLoaded ==
  /\ pc = "Done"
  /\ BeyondRange
  /\ src.detail[2] = Stamp2263
  /\ Len(tasks) = 2
  /\ formatTimestamp(tasks[1].createdAt)
       = <<"1", "6", "7", "8", "-", "0", "6", "-", "1", "2", " ",
           "0", "0", ":", "2", "5", ":", "2", "7">>

\* The same file in a build that traps signed overflow: the process was
\* killed inside from_time_t, before createdAt was assigned; id, description
\* and status of the first object were, and no list was returned.
KilledInLoad ==
  /\ pc = "Killed"
  /\ BeyondRange
  /\ loads = <<>>
  /\ tasks = <<>>
  /\ task = [DefaultTask EXCEPT !.id = 5, !.description = <<"d">>,
                                !.status = "IN_PROGRESS"]
  /\ diag = <<"aborted">>

=============================================================================
